---- MODULE Spec2Model ----
(***************************************************************************)
(* Expense-tracking client: the summary screen (filters, month aggregate)  *)
(* and the expense / registration forms, as state machines.                *)
(*                                                                         *)
(* Representation.                                                         *)
(*   - A text is a sequence of one-character strings, so that trim,        *)
(*     toLowerCase, includes, parseFloat, Number and the date regex are    *)
(*     computed character by character.                                    *)
(*   - An amount is a whole number of cents; the texts of the model carry  *)
(*     at most two decimals, so parsing is exact.                          *)
(*   - An instant (a JavaScript Date) is a whole number of hours since     *)
(*     1970-01-01T00:00Z; the device timezone offset tz is a whole number  *)
(*     of hours.  At this resolution 23:59:59.999 is hour 23 of its day.   *)
(*   - undefined / NaN / Invalid Date are the empty sequence <<>>, a       *)
(*     present value v is <<v>>.                                           *)
(***************************************************************************)
EXTENDS Integers, Sequences, FiniteSets, TLC

VARIABLES
    tz,               \* device timezone offset, hours east of UTC
    platform,         \* Platform.OS
    now,              \* the instant new Date() returns
    session,          \* the backend has an active session
    table,            \* rows of the remote "expenses" table of the user
    mounted,          \* ExpensesSummaryScreen is on screen
    sumPc,            \* position of loadExpenses: idle, getSession, select, done
    sumLoading,       \* loading
    allExpenses,
    monthExpenses,
    visibleExpenses,
    monthTotal,
    filteredTotal,
    searchName,
    minAmount,
    maxAmount,
    startDate,
    endDate,
    showStartPicker,
    showEndPicker,
    sumAlert,         \* the Alert.alert shown by the current load, "" if none
    lastAction,       \* the handler that ran last on the summary screen
    form,             \* the form screen on screen: none, add, edit, register
    pendingCall,      \* the remote write of the form in flight, op "none" if none
    formAction,       \* what the form's submit handler did, if it ran last
    addValues,        \* Formik values of AddExpenseScreen: name, amount
    addErrors,        \* Formik errors of AddExpenseScreen: name, amount
    addTouched,       \* Formik touched
    addIsSubmitting,  \* Formik isSubmitting
    addDate,          \* date
    addShowDatePicker,
    addLoadingSubmit,
    addStatusMsg,
    addStatusType,
    addStatusTimer,   \* a setTimeout that clears the status message is pending
    addPc,            \* position of handleSubmitExpense: idle, getSession, insert
    addSubmitted,     \* the values and date the running submit was called with
    editName,         \* EditExpenseScreen: name, amount, date (texts)
    editAmount,
    editDate,
    editLoading,
    nameError,
    amountError,
    dateError,
    editSuccessMessage,
    editErrorMessage,
    editPc,           \* position of handleSave / handleDelete: idle, update, delete, deleted
    editGoBackTimer,  \* the 1500 ms timeouts that call goBack and are pending
    editGoBacks,      \* calls of navigation.goBack() by the handlers of the screen
    editErrorTimer,   \* the 3000 ms timeout that hides the error is pending
    regValues,        \* RegisterScreen: Formik values
    regErrors,        \* Formik errors
    regTouched,       \* Formik touched
    regLoading,
    regSuccessMessage,
    regErrorMessage,
    regPc,            \* position of handleRegister: idle, signUp
    regMessageTimer,  \* a 3000 ms timeout that hides a message is pending
    appRoute,         \* the root screen: AuthLoading, Login, Home
    checkSessionPc,   \* AuthLoadingScreen.checkSession: "getSession", "done", "threw"
    bioSupport,       \* isSensorAvailable() reports a sensor
    loginValues,      \* LoginScreen: Formik values
    loginErrors,      \* Formik errors
    loginLoading,
    loginErrorMessage,
    loginErrorTimer,  \* a 3000 ms timeout that hides the error is pending
    loginPc,          \* position of handleLogin: idle, signIn, upsert, support, prompt
    attempt,          \* what the last handleLogin did: result, session, upsert
    bioBlocked,       \* a biometric prompt failed and no sign-in succeeded since
    homeFullName,     \* HomeScreen: fullName, <<>> for null
    homeLoadingProfile,
    homeLoggingOut,
    homeProfilePc,    \* position of loadProfile: idle, getSession, select, done
    homeLogoutPc,     \* position of handleLogout: idle, signOut
    homeExpenses,     \* HomeScreen: expenses
    homeLoading,
    homeLoads,        \* calls of loadExpenses in flight
    homeDeletePc,     \* the row whose deleteExpense is in flight, 0 if none
    homeAlert,        \* the last Alert.alert of the Home screen, "" if none
    homeReturned,     \* <<rows>> the last settled load was given, <<>> if it failed
    homeInFlight,     \* the calls of loadExpenses in flight, in the order they started
    homeLatest,       \* <<rows>> given to the latest-started load that has settled
    lastFailure,      \* the last remote failure: its action and messages shown
    moneyValue,       \* the amount a call of formatMoney is given, in cents
    moneyText,        \* the text that call returned, <<>> before it has run
    dateValue,        \* the value a call of formatDate is given: a text or a Date
    dateText          \* the text that call returned, <<>> before it has run

summaryVars == <<mounted, sumPc, sumLoading, allExpenses, monthExpenses,
                 visibleExpenses, monthTotal, filteredTotal, searchName,
                 minAmount, maxAmount, startDate, endDate, showStartPicker,
                 showEndPicker, sumAlert, lastAction>>
envVars == <<tz, platform, now, session, table>>
addVars == <<addValues, addErrors, addTouched, addIsSubmitting, addDate, addShowDatePicker,
             addLoadingSubmit, addStatusMsg, addStatusType, addStatusTimer, addPc,
             addSubmitted>>
editVars == <<editName, editAmount, editDate, editLoading, nameError, amountError,
              dateError, editSuccessMessage, editErrorMessage, editPc,
              editGoBackTimer, editGoBacks, editErrorTimer>>
regVars == <<regValues, regErrors, regTouched, regLoading, regSuccessMessage,
             regErrorMessage, regPc, regMessageTimer>>
formVars == <<form, pendingCall, formAction, addVars, editVars, regVars>>
loginVars == <<loginValues, loginErrors, loginLoading, loginErrorMessage,
               loginErrorTimer, loginPc>>
homeVars == <<homeFullName, homeLoadingProfile, homeLoggingOut, homeProfilePc,
              homeLogoutPc, homeExpenses, homeLoading, homeLoads, homeDeletePc,
              homeAlert, homeReturned, homeInFlight, homeLatest>>
appVars == <<appRoute, checkSessionPc, bioSupport, attempt, bioBlocked, lastFailure, loginVars,
             homeVars>>
moneyVars == <<moneyValue, moneyText>>
dateVars == <<dateValue, dateText>>
renderVars == <<moneyVars, dateVars>>
vars == <<envVars, summaryVars, formVars, appVars, renderVars>>

(***************************************************************************)
(* Texts                                                                   *)
(***************************************************************************)
Digits == <<"0", "1", "2", "3", "4", "5", "6", "7", "8", "9">>
UpperLetters == <<"A", "B", "C", "D", "E", "F", "G", "H", "I", "J", "K", "L", "M",
                  "N", "O", "P", "Q", "R", "S", "T", "U", "V", "W", "X", "Y", "Z">>
LowerLetters == <<"a", "b", "c", "d", "e", "f", "g", "h", "i", "j", "k", "l", "m",
                  "n", "o", "p", "q", "r", "s", "t", "u", "v", "w", "x", "y", "z">>

InSeq(c, s) == \E i \in 1..Len(s) : s[i] = c
IndexOf(c, s) == CHOOSE i \in 1..Len(s) : s[i] = c

IsDigit(c) == InSeq(c, Digits)
DigitVal(c) == IndexOf(c, Digits) - 1
IsSpace(c) == c = " "

RECURSIVE TrimStart(_)
TrimStart(s) ==
    IF s # <<>> /\ IsSpace(Head(s)) THEN TrimStart(Tail(s)) ELSE s

RECURSIVE TrimEnd(_)
TrimEnd(s) ==
    IF s # <<>> /\ IsSpace(s[Len(s)]) THEN TrimEnd(SubSeq(s, 1, Len(s) - 1)) ELSE s

\* String.prototype.trim
Trim(s) == TrimEnd(TrimStart(s))

LowerChar(c) == IF InSeq(c, UpperLetters) THEN LowerLetters[IndexOf(c, UpperLetters)] ELSE c

\* String.prototype.toLowerCase
ToLowerCase(s) == [i \in 1..Len(s) |-> LowerChar(s[i])]

\* String.prototype.includes
Includes(s, t) == \E i \in 0..(Len(s) - Len(t)) : SubSeq(s, i + 1, i + Len(t)) = t

(***************************************************************************)
(* Numbers                                                                 *)
(***************************************************************************)
NaN == <<>>
IsNaN(x) == x = <<>>

RECURSIVE DigitRun(_)
\* the longest prefix of s made of digits
DigitRun(s) ==
    IF s # <<>> /\ IsDigit(Head(s)) THEN <<Head(s)>> \o DigitRun(Tail(s)) ELSE <<>>

RECURSIVE NatOf(_)
\* the value of a run of digits
NatOf(ds) ==
    IF ds = <<>> THEN 0 ELSE NatOf(SubSeq(ds, 1, Len(ds) - 1)) * 10 + DigitVal(ds[Len(ds)])

\* the decimals of a number, in cents
CentsOf(fp) ==
    IF fp = <<>> THEN 0
    ELSE IF Len(fp) = 1 THEN DigitVal(fp[1]) * 10
    ELSE DigitVal(fp[1]) * 10 + DigitVal(fp[2])

\* parseFloat: leading white space skipped, then the longest prefix that is
\* a decimal literal; NaN when there is none.  The result is in cents.
ParseFloat(text) ==
    LET t == TrimStart(text)
        signed == t # <<>> /\ Head(t) \in {"-", "+"}
        sign == IF t # <<>> /\ Head(t) = "-" THEN -1 ELSE 1
        u == IF signed THEN Tail(t) ELSE t
        ip == DigitRun(u)
        rest == SubSeq(u, Len(ip) + 1, Len(u))
        fp == IF rest # <<>> /\ Head(rest) = "." THEN DigitRun(Tail(rest)) ELSE <<>>
    IN  IF ip = <<>> /\ fp = <<>> THEN NaN
        ELSE <<sign * (NatOf(ip) * 100 + CentsOf(fp))>>

\* Number(text): white space trimmed at both ends, the empty text is 0,
\* otherwise the whole text must be a decimal literal.  In cents.
ToNumber(text) ==
    LET t == Trim(text)
        signed == t # <<>> /\ Head(t) \in {"-", "+"}
        sign == IF t # <<>> /\ Head(t) = "-" THEN -1 ELSE 1
        u == IF signed THEN Tail(t) ELSE t
        ip == DigitRun(u)
        rest == SubSeq(u, Len(ip) + 1, Len(u))
        dot == rest # <<>> /\ Head(rest) = "."
        fp == IF dot THEN DigitRun(Tail(rest)) ELSE <<>>
        left == IF dot THEN SubSeq(rest, Len(fp) + 2, Len(rest)) ELSE rest
    IN  IF t = <<>> THEN <<0>>
        ELSE IF (ip = <<>> /\ fp = <<>>) \/ left # <<>> THEN NaN
        ELSE <<sign * (NatOf(ip) * 100 + CentsOf(fp))>>

RECURSIVE ReplaceComma(_)
\* value.replace(',', '.') : the first comma becomes a point
ReplaceComma(text) ==
    IF text = <<>> THEN <<>>
    ELSE IF Head(text) = "," THEN <<".">> \o Tail(text)
    ELSE <<Head(text)>> \o ReplaceComma(Tail(text))

RECURSIVE NatToText(_)
NatToText(n) ==
    IF n < 10 THEN <<Digits[n + 1]>> ELSE NatToText(n \div 10) \o <<Digits[(n % 10) + 1]>>

\* String(amount) of a positive amount in cents
NumberToText(cents) ==
    LET ip == NatToText(cents \div 100)
        fp == cents % 100
    IN  IF fp = 0 THEN ip
        ELSE IF fp % 10 = 0 THEN ip \o <<".", Digits[(fp \div 10) + 1]>>
        ELSE ip \o <<".">> \o <<Digits[(fp \div 10) + 1], Digits[(fp % 10) + 1]>>

(***************************************************************************)
(* Dates                                                                   *)
(***************************************************************************)
\* days since 1970-01-01 of the proleptic Gregorian date y-m-d
DaysFromCivil(y, m, d) ==
    LET yy == IF m <= 2 THEN y - 1 ELSE y
        era == yy \div 400
        yoe == yy - era * 400
        mp == IF m > 2 THEN m - 3 ELSE m + 9
        doy == (153 * mp + 2) \div 5 + d - 1
        doe == yoe * 365 + yoe \div 4 - yoe \div 100 + doy
    IN  era * 146097 + doe - 719468

\* the Gregorian date of a day number, as [y, m, d]
CivilFromDays(z) ==
    LET zz == z + 719468
        era == zz \div 146097
        doe == zz - era * 146097
        yoe == (doe - doe \div 1460 + doe \div 36524 - doe \div 146096) \div 365
        doy == doe - (365 * yoe + yoe \div 4 - yoe \div 100)
        mp == (5 * doy + 2) \div 153
        d == doy - (153 * mp + 2) \div 5 + 1
        m == IF mp < 10 THEN mp + 3 ELSE mp - 9
        y == yoe + era * 400 + (IF m <= 2 THEN 1 ELSE 0)
    IN  [y |-> y, m |-> m, d |-> d]

HoursPerDay == 24

Pad2(n) == <<Digits[(n \div 10) + 1], Digits[(n % 10) + 1]>>
Pad4(n) == Pad2(n \div 100) \o Pad2(n % 100)

\* the date-only ISO text YYYY-MM-DD of a calendar date
IsoText(y, m, d) == Pad4(y) \o <<"-">> \o Pad2(m) \o <<"-">> \o Pad2(d)

\* new Date(y, m, d, h) : the instant of a local wall-clock time
LocalInstant(y, m, d, h, zone) == DaysFromCivil(y, m, d) * HoursPerDay + h - zone

\* the local calendar date of an instant
LocalCivil(t, zone) == CivilFromDays((t + zone) \div HoursPerDay)

\* Date.prototype.getMonth (0-based), getFullYear, getDate
GetMonth(t, zone) == LocalCivil(t, zone).m - 1
GetFullYear(t, zone) == LocalCivil(t, zone).y
GetDate(t, zone) == LocalCivil(t, zone).d

\* new Date("YYYY-MM-DD") : a date-only ISO text is read as midnight UTC
NewDateFromIso(text) ==
    DaysFromCivil(NatOf(SubSeq(text, 1, 4)), NatOf(SubSeq(text, 6, 7)),
                  NatOf(SubSeq(text, 9, 10))) * HoursPerDay

\* new Date(d.getFullYear(), d.getMonth(), d.getDate()) : local midnight of
\* d's local day
NormalizeDate(t, zone) == ((t + zone) \div HoursPerDay) * HoursPerDay - zone

\* d.toISOString().split('T')[0] : the UTC calendar date of the instant
ToIsoDate(t) ==
    LET c == CivilFromDays(t \div HoursPerDay) IN IsoText(c.y, c.m, c.d)

\* d.setHours(23, 59, 59, 999) : the last instant of d's local day
SetHoursEndOfDay(t, zone) ==
    ((t + zone) \div HoursPerDay) * HoursPerDay + (HoursPerDay - 1) - zone

(***************************************************************************)
(* Inputs                                                                  *)
(***************************************************************************)
MaxExpenses == 3

\* device timezones: America/El_Salvador, UTC, Europe/Madrid (summer)
TimeZones == {-6, 0, 2}
Platforms == {"android", "ios"}

\* the rows the backend may hold for the user, in the order they were inserted
ExpensePool ==
    { [id |-> 1, name |-> <<"C", "a", "f", "e">>, amount |-> 1000,
       date |-> IsoText(2024, 5, 1)],
      [id |-> 2, name |-> <<"C", "e", "n", "a">>, amount |-> 1500,
       date |-> IsoText(2024, 5, 31)],
      [id |-> 3, name |-> <<"c", "a", "f", "e", " ", "b", "a", "r">>, amount |-> 2000,
       date |-> IsoText(2024, 6, 1)],
      [id |-> 4, name |-> <<"B", "u", "s">>, amount |-> 500,
       date |-> IsoText(2024, 5, 31)] }

\* the table after its first n inserts
Tables == {{e \in ExpensePool : e.id <= n} : n \in 0..MaxExpenses}

\* the wall-clock times at which the app runs: 2024-05-15 12:00
NowTimes(zone) == {LocalInstant(2024, 5, 15, 12, zone)}

\* what the user types in "Buscar por nombre"
NameTexts == {<<>>, <<"c", "a", "f", " ">>}
\* what the user types in "Monto min." and "Monto max."
MinTexts == {<<>>, <<" ">>, <<"a", "b", "c">>, <<"1", "5">>}
MaxTexts == {<<>>, <<"a", "b", "c">>, <<"1", "5">>}
\* the days the user picks, and the time of day the picked value carries
PickDays == {<<2024, 5, 31>>}
PickHours == {0, 10}
PickedDates(zone) ==
    {LocalInstant(p[1], p[2], p[3], h, zone) : p \in PickDays, h \in PickHours}

(***************************************************************************)
(* Remote "expenses" table                                                 *)
(***************************************************************************)
\* .order('date', { ascending: false }) : the rows latest date first; rows
\* of the same date come in any order
RECURSIVE OrderByDateDesc(_)
OrderByDateDesc(rows) ==
    IF rows = {} THEN {<<>>}
    ELSE LET latest == {e \in rows :
                          \A f \in rows : NewDateFromIso(f.date) <= NewDateFromIso(e.date)}
         IN  UNION {{<<e>> \o rest : rest \in OrderByDateDesc(rows \ {e})} : e \in latest}

RECURSIVE SumAmounts(_)
\* list.reduce((acc, exp) => acc + Number(exp.amount ?? 0), 0)
SumAmounts(list) ==
    IF list = <<>> THEN 0 ELSE Head(list).amount + SumAmounts(Tail(list))

(***************************************************************************)
(* ExpensesSummaryScreen                                                   *)
(***************************************************************************)
Undefined == <<>>

SummaryInitialState ==
    /\ allExpenses = <<>>
    /\ monthExpenses = <<>>
    /\ visibleExpenses = <<>>
    /\ monthTotal = 0
    /\ filteredTotal = 0
    /\ searchName = <<>>
    /\ minAmount = <<>>
    /\ maxAmount = <<>>
    /\ startDate = Undefined
    /\ endDate = Undefined
    /\ showStartPicker = FALSE
    /\ showEndPicker = FALSE

\* no date is being rendered
DateIdle ==
    /\ dateValue = [kind |-> "string", text |-> <<>>, instant |-> 0]
    /\ dateText = <<>>

\* no amount and no date is being rendered
MoneyIdle ==
    /\ moneyValue = 0
    /\ moneyText = <<>>
    /\ DateIdle

SummaryInit ==
    /\ mounted = FALSE
    /\ sumPc = "idle"
    /\ sumLoading = FALSE
    /\ SummaryInitialState
    /\ sumAlert = ""
    /\ lastAction = "none"

\* the screen is pushed: useState initial values, then useEffect runs
\* loadExpenses up to its first await
SummaryMount ==
    /\ ~mounted
    /\ mounted' = TRUE
    /\ sumPc' = "getSession"
    /\ sumLoading' = TRUE
    /\ sumAlert' = ""
    /\ lastAction' = "mount"
    /\ UNCHANGED <<allExpenses, monthExpenses, visibleExpenses, monthTotal,
                   filteredTotal, searchName, minAmount, maxAmount, startDate,
                   endDate, showStartPicker, showEndPicker>>
    /\ UNCHANGED <<envVars, renderVars, appVars, formVars>>

\* supabase.auth.getSession() settles
SummaryGetSession ==
    /\ mounted /\ sumPc = "getSession"
    /\ \E sessionError \in BOOLEAN :
        IF sessionError \/ ~session
        THEN /\ sumAlert' = "Debes iniciar sesion."
             /\ sumLoading' = FALSE
             /\ sumPc' = "done"
        ELSE /\ sumPc' = "select"
             /\ UNCHANGED <<sumAlert, sumLoading>>
    /\ lastAction' = "load"
    /\ UNCHANGED <<mounted, allExpenses, monthExpenses, visibleExpenses, monthTotal,
                   filteredTotal, searchName, minAmount, maxAmount, startDate,
                   endDate, showStartPicker, showEndPicker>>
    /\ UNCHANGED <<envVars, renderVars, appVars, formVars>>

\* expenses.filter(exp => month and year of new Date(exp.date) are now's)
CurrentMonthExpenses(expenses) ==
    LET currentMonth == GetMonth(now, tz)
        currentYear == GetFullYear(now, tz)
        inMonth(exp) ==
            LET d == NewDateFromIso(exp.date)
            IN  GetMonth(d, tz) = currentMonth /\ GetFullYear(d, tz) = currentYear
    IN  SelectSeq(expenses, inMonth)

\* the select on "expenses" settles
SummarySelect ==
    /\ mounted /\ sumPc = "select"
    /\ \E error \in BOOLEAN, expenses \in OrderByDateDesc(table) :
        IF error
        THEN /\ sumAlert' = "Error al cargar gastos"
             /\ UNCHANGED <<allExpenses, monthExpenses, visibleExpenses, monthTotal,
                            filteredTotal>>
        ELSE LET currentMonthExpenses == CurrentMonthExpenses(expenses)
                 total == SumAmounts(currentMonthExpenses)
             IN  /\ allExpenses' = expenses
                 /\ monthExpenses' = currentMonthExpenses
                 /\ visibleExpenses' = currentMonthExpenses
                 /\ monthTotal' = total
                 /\ filteredTotal' = total
                 /\ UNCHANGED sumAlert
    /\ sumLoading' = FALSE
    /\ sumPc' = "done"
    /\ lastAction' = "load"
    /\ UNCHANGED <<mounted, searchName, minAmount, maxAmount, startDate, endDate,
                   showStartPicker, showEndPicker>>
    /\ UNCHANGED <<envVars, renderVars, appVars, formVars>>

\* hasFilters with the amount texts compared untrimmed
HasFiltersUntrimmed(name, min, max, start, end) ==
    \/ Trim(name) # <<>>
    \/ min # <<>>
    \/ max # <<>>
    \/ start # Undefined
    \/ end # Undefined

\* hasFilters of applyFilters
HasFilters(name, min, max, start, end) ==
    \/ Trim(name) # <<>>
    \/ Trim(min) # <<>>
    \/ Trim(max) # <<>>
    \/ start # Undefined
    \/ end # Undefined

\* the name filter comparing the name as stored (case-sensitive)
FilterByNameCaseSensitive(list, name) ==
    IF Trim(name) # <<>>
    THEN LET term == ToLowerCase(Trim(name))
             keep(exp) == Includes(exp.name, term)
         IN  SelectSeq(list, keep)
    ELSE list

FilterByName(list, name) ==
    IF Trim(name) # <<>>
    THEN LET term == ToLowerCase(Trim(name))
             keep(exp) == Includes(ToLowerCase(exp.name), term)
         IN  SelectSeq(list, keep)
    ELSE list

\* the lower bound taken as exclusive
FilterByMinStrict(list, text) ==
    LET min == ParseFloat(text)
        keep(exp) == exp.amount > min[1]
    IN  IF ~IsNaN(min) THEN SelectSeq(list, keep) ELSE list

FilterByMin(list, text) ==
    LET min == ParseFloat(text)
        keep(exp) == exp.amount >= min[1]
    IN  IF ~IsNaN(min) THEN SelectSeq(list, keep) ELSE list

\* the upper bound compared without the isNaN guard: amount <= NaN is false
FilterByMaxUnguarded(list, text) ==
    LET max == ParseFloat(text)
        keep(exp) == ~IsNaN(max) /\ exp.amount <= max[1]
    IN  SelectSeq(list, keep)

FilterByMax(list, text) ==
    LET max == ParseFloat(text)
        keep(exp) == exp.amount <= max[1]
    IN  IF ~IsNaN(max) THEN SelectSeq(list, keep) ELSE list

FilterByStart(list, start) ==
    IF start # Undefined
    THEN LET keep(exp) == NewDateFromIso(exp.date) >= start[1]
         IN  SelectSeq(list, keep)
    ELSE list

FilterByEnd(list, endPicked) ==
    IF endPicked # Undefined
    THEN LET end == SetHoursEndOfDay(endPicked[1], tz)
             keep(exp) == NewDateFromIso(exp.date) <= end
         IN  SelectSeq(list, keep)
    ELSE list

\* the list applyFilters computes from the criteria
FilteredList(name, min, max, start, end) ==
    FilterByEnd(FilterByStart(FilterByMax(FilterByMin(FilterByName(
        IF HasFilters(name, min, max, start, end) THEN allExpenses ELSE monthExpenses,
        name), min), max), start), end)

\* "Buscar"
ApplyFilters ==
    /\ mounted
    /\ LET list == FilteredList(searchName, minAmount, maxAmount, startDate, endDate)
       IN  /\ visibleExpenses' = list
           /\ filteredTotal' = SumAmounts(list)
    /\ lastAction' = "applyFilters"
    /\ UNCHANGED <<mounted, sumPc, sumLoading, allExpenses, monthExpenses, monthTotal,
                   searchName, minAmount, maxAmount, startDate, endDate,
                   showStartPicker, showEndPicker, sumAlert>>
    /\ UNCHANGED <<envVars, renderVars, appVars, formVars>>

\* "Limpiar" without its setFilteredTotal(monthTotal)
ClearFiltersKeepingTotal ==
    /\ mounted
    /\ searchName' = <<>>
    /\ minAmount' = <<>>
    /\ maxAmount' = <<>>
    /\ startDate' = Undefined
    /\ endDate' = Undefined
    /\ visibleExpenses' = monthExpenses
    /\ lastAction' = "clearFilters"
    /\ UNCHANGED <<mounted, sumPc, sumLoading, allExpenses, monthExpenses, monthTotal,
                   filteredTotal, showStartPicker, showEndPicker, sumAlert>>
    /\ UNCHANGED <<envVars, renderVars, appVars, formVars>>

\* "Limpiar"
ClearFilters ==
    /\ mounted
    /\ searchName' = <<>>
    /\ minAmount' = <<>>
    /\ maxAmount' = <<>>
    /\ startDate' = Undefined
    /\ endDate' = Undefined
    /\ visibleExpenses' = monthExpenses
    /\ filteredTotal' = monthTotal
    /\ lastAction' = "clearFilters"
    /\ UNCHANGED <<mounted, sumPc, sumLoading, allExpenses, monthExpenses, monthTotal,
                   showStartPicker, showEndPicker, sumAlert>>
    /\ UNCHANGED <<envVars, renderVars, appVars, formVars>>

SetSearchName ==
    /\ mounted
    /\ \E text \in NameTexts : searchName' = text
    /\ lastAction' = "edit"
    /\ UNCHANGED <<mounted, sumPc, sumLoading, allExpenses, monthExpenses,
                   visibleExpenses, monthTotal, filteredTotal, minAmount, maxAmount,
                   startDate, endDate, showStartPicker, showEndPicker, sumAlert>>
    /\ UNCHANGED <<envVars, renderVars, appVars, formVars>>

SetMinAmount ==
    /\ mounted
    /\ \E text \in MinTexts : minAmount' = text
    /\ lastAction' = "edit"
    /\ UNCHANGED <<mounted, sumPc, sumLoading, allExpenses, monthExpenses,
                   visibleExpenses, monthTotal, filteredTotal, searchName, maxAmount,
                   startDate, endDate, showStartPicker, showEndPicker, sumAlert>>
    /\ UNCHANGED <<envVars, renderVars, appVars, formVars>>

SetMaxAmount ==
    /\ mounted
    /\ \E text \in MaxTexts : maxAmount' = text
    /\ lastAction' = "edit"
    /\ UNCHANGED <<mounted, sumPc, sumLoading, allExpenses, monthExpenses,
                   visibleExpenses, monthTotal, filteredTotal, searchName, minAmount,
                   startDate, endDate, showStartPicker, showEndPicker, sumAlert>>
    /\ UNCHANGED <<envVars, renderVars, appVars, formVars>>

\* the "Desde" button
OpenStartPicker ==
    /\ mounted /\ ~showStartPicker
    /\ showStartPicker' = TRUE
    /\ UNCHANGED <<mounted, sumPc, sumLoading, allExpenses, monthExpenses,
                   visibleExpenses, monthTotal, filteredTotal, searchName, minAmount,
                   maxAmount, startDate, endDate, showEndPicker, sumAlert, lastAction>>
    /\ UNCHANGED <<envVars, renderVars, appVars, formVars>>

\* the "Hasta" button
OpenEndPicker ==
    /\ mounted /\ ~showEndPicker
    /\ showEndPicker' = TRUE
    /\ UNCHANGED <<mounted, sumPc, sumLoading, allExpenses, monthExpenses,
                   visibleExpenses, monthTotal, filteredTotal, searchName, minAmount,
                   maxAmount, startDate, endDate, showStartPicker, sumAlert, lastAction>>
    /\ UNCHANGED <<envVars, renderVars, appVars, formVars>>

\* the picker reports a date (selectedDate) or a dismissal (undefined)
OnChangeStartDate ==
    /\ mounted /\ showStartPicker
    /\ \E selectedDate \in {Undefined} \cup {<<t>> : t \in PickedDates(tz)} :
        startDate' = IF selectedDate # Undefined THEN selectedDate ELSE startDate
    /\ showStartPicker' = IF platform = "android" THEN FALSE ELSE showStartPicker
    /\ lastAction' = "edit"
    /\ UNCHANGED <<mounted, sumPc, sumLoading, allExpenses, monthExpenses,
                   visibleExpenses, monthTotal, filteredTotal, searchName, minAmount,
                   maxAmount, endDate, showEndPicker, sumAlert>>
    /\ UNCHANGED <<envVars, renderVars, appVars, formVars>>

OnChangeEndDate ==
    /\ mounted /\ showEndPicker
    /\ \E selectedDate \in {Undefined} \cup {<<t>> : t \in PickedDates(tz)} :
        endDate' = IF selectedDate # Undefined THEN selectedDate ELSE endDate
    /\ showEndPicker' = IF platform = "android" THEN FALSE ELSE showEndPicker
    /\ lastAction' = "edit"
    /\ UNCHANGED <<mounted, sumPc, sumLoading, allExpenses, monthExpenses,
                   visibleExpenses, monthTotal, filteredTotal, searchName, minAmount,
                   maxAmount, startDate, showStartPicker, sumAlert>>
    /\ UNCHANGED <<envVars, renderVars, appVars, formVars>>

\* "Volver": navigation.goBack() unmounts the screen and drops its state
SummaryGoBack ==
    /\ mounted
    /\ mounted' = FALSE
    /\ sumPc' = "idle"
    /\ sumLoading' = FALSE
    /\ allExpenses' = <<>>
    /\ monthExpenses' = <<>>
    /\ visibleExpenses' = <<>>
    /\ monthTotal' = 0
    /\ filteredTotal' = 0
    /\ searchName' = <<>>
    /\ minAmount' = <<>>
    /\ maxAmount' = <<>>
    /\ startDate' = Undefined
    /\ endDate' = Undefined
    /\ showStartPicker' = FALSE
    /\ showEndPicker' = FALSE
    /\ sumAlert' = ""
    /\ lastAction' = "none"
    /\ UNCHANGED <<envVars, renderVars, appVars, formVars>>

(***************************************************************************)
(* Forms: what the user types and picks                                    *)
(***************************************************************************)
\* expense names: "ab", " ab ", "abc"
FormNames == {<<"a", "b">>, <<" ", "a", "b", " ">>, <<"a", "b", "c">>}
\* amount texts: "0", "-5", "4.50", "4,50", "abc"
FormAmounts == {<<"0">>, <<"-", "5">>, <<"4", ".", "5", "0">>, <<"4", ",", "5", "0">>,
                <<"a", "b", "c">>}
\* the days picked in AddExpenseScreen: yesterday and tomorrow, at 10:00
AddPickedDates(zone) ==
    {LocalInstant(2024, 5, 14, 10, zone), LocalInstant(2024, 5, 16, 10, zone)}

NoCall == [op |-> "none"]
NoSubmit == [name |-> <<>>, amount |-> <<>>, date |-> 0]
NoErrors == [name |-> "", amount |-> ""]
Untouched == [name |-> FALSE, amount |-> FALSE]

(***************************************************************************)
(* AddExpenseScreen                                                        *)
(***************************************************************************)
\* expenseSchema.name : trim, min(3), required.  Formik hands the empty text
\* to Yup as undefined, which only "required" rejects.
AddNameError(name) ==
    IF name = <<>> THEN "El nombre del gasto es obligatorio"
    ELSE IF Len(Trim(name)) < 3 THEN "El nombre debe tener al menos 3 caracteres"
    ELSE ""

\* the 'is-number' test of expenseSchema.amount
AddIsNumber(value) ==
    LET n == ToNumber(ReplaceComma(value))
    IN  value # <<>> /\ ~IsNaN(n) /\ n[1] > 0

\* expenseSchema.amount : required, test('is-number')
AddAmountError(amount) ==
    IF amount = <<>> THEN "El monto es obligatorio"
    ELSE IF ~AddIsNumber(amount) THEN "Ingresa un monto valido"
    ELSE ""

\* Formik runs validationSchema over the values: one message per field
AddSchemaErrors(values) ==
    [name |-> AddNameError(values.name), amount |-> AddAmountError(values.amount)]

AddFormInitial ==
    /\ addValues = [name |-> <<>>, amount |-> <<>>]
    /\ addErrors = NoErrors
    /\ addTouched = Untouched
    /\ addIsSubmitting = FALSE
    /\ addDate = 0
    /\ addShowDatePicker = FALSE
    /\ addLoadingSubmit = FALSE
    /\ addStatusMsg = ""
    /\ addStatusType = ""
    /\ addStatusTimer = FALSE
    /\ addPc = "idle"
    /\ addSubmitted = NoSubmit

\* navigation.navigate('AddExpense') : useState(new Date())
AddMount ==
    /\ form = "none"
    /\ form' = "add"
    /\ addDate' = now
    /\ pendingCall' = NoCall
    /\ formAction' = "none"
    /\ UNCHANGED <<addValues, addErrors, addTouched, addIsSubmitting,
                   addShowDatePicker, addLoadingSubmit, addStatusMsg, addStatusType,
                   addStatusTimer, addPc, addSubmitted>>
    /\ UNCHANGED <<envVars, renderVars, appVars, summaryVars, editVars, regVars>>

\* "Volver", with no submit in flight: the screen and its state are dropped
AddGoBack ==
    /\ form = "add" /\ addPc = "idle"
    /\ form' = "none"
    /\ addValues' = [name |-> <<>>, amount |-> <<>>]
    /\ addErrors' = NoErrors
    /\ addTouched' = Untouched
    /\ addIsSubmitting' = FALSE
    /\ addDate' = 0
    /\ addShowDatePicker' = FALSE
    /\ addLoadingSubmit' = FALSE
    /\ addStatusMsg' = ""
    /\ addStatusType' = ""
    /\ addStatusTimer' = FALSE
    /\ addPc' = "idle"
    /\ addSubmitted' = NoSubmit
    /\ pendingCall' = NoCall
    /\ formAction' = "none"
    /\ UNCHANGED <<envVars, renderVars, appVars, summaryVars, editVars, regVars>>

\* handleChange('name') : the value changes and the schema is validated
AddChangeName ==
    /\ form = "add"
    /\ \E text \in FormNames :
        /\ addValues' = [addValues EXCEPT !.name = text]
        /\ addErrors' = AddSchemaErrors([addValues EXCEPT !.name = text])
    /\ formAction' = "none"
    /\ UNCHANGED <<form, pendingCall, addTouched, addIsSubmitting, addDate,
                   addShowDatePicker, addLoadingSubmit, addStatusMsg, addStatusType,
                   addStatusTimer, addPc, addSubmitted>>
    /\ UNCHANGED <<envVars, renderVars, appVars, summaryVars, editVars, regVars>>

\* handleChange('amount')
AddChangeAmount ==
    /\ form = "add"
    /\ \E text \in FormAmounts :
        /\ addValues' = [addValues EXCEPT !.amount = text]
        /\ addErrors' = AddSchemaErrors([addValues EXCEPT !.amount = text])
    /\ formAction' = "none"
    /\ UNCHANGED <<form, pendingCall, addTouched, addIsSubmitting, addDate,
                   addShowDatePicker, addLoadingSubmit, addStatusMsg, addStatusType,
                   addStatusTimer, addPc, addSubmitted>>
    /\ UNCHANGED <<envVars, renderVars, appVars, summaryVars, editVars, regVars>>

\* handleBlur(field) : the field is touched and the schema is validated
AddBlur ==
    /\ form = "add"
    /\ \E field \in {"name", "amount"} :
        addTouched' = [addTouched EXCEPT ![field] = TRUE]
    /\ addErrors' = AddSchemaErrors(addValues)
    /\ formAction' = "none"
    /\ UNCHANGED <<form, pendingCall, addValues, addIsSubmitting, addDate,
                   addShowDatePicker, addLoadingSubmit, addStatusMsg, addStatusType,
                   addStatusTimer, addPc, addSubmitted>>
    /\ UNCHANGED <<envVars, renderVars, appVars, summaryVars, editVars, regVars>>

\* the date field is pressed
AddOpenDatePicker ==
    /\ form = "add" /\ ~addShowDatePicker
    /\ addShowDatePicker' = TRUE
    /\ formAction' = "none"
    /\ UNCHANGED <<form, pendingCall, addValues, addErrors, addTouched,
                   addIsSubmitting, addDate, addLoadingSubmit, addStatusMsg,
                   addStatusType, addStatusTimer, addPc, addSubmitted>>
    /\ UNCHANGED <<envVars, renderVars, appVars, summaryVars, editVars, regVars>>

\* handleChangeDate : the picker is dismissed, or reports the date picked.
\* The picker is given maximumDate; the handler takes whatever date comes.
AddHandleChangeDate ==
    /\ form = "add" /\ addShowDatePicker
    /\ \/ /\ addShowDatePicker' = FALSE
          /\ UNCHANGED addDate
       \/ \E selectedDate \in AddPickedDates(tz) :
            /\ addShowDatePicker' = (platform = "ios")
            /\ addDate' = selectedDate
    /\ formAction' = "none"
    /\ UNCHANGED <<form, pendingCall, addValues, addErrors, addTouched,
                   addIsSubmitting, addLoadingSubmit, addStatusMsg, addStatusType,
                   addStatusTimer, addPc, addSubmitted>>
    /\ UNCHANGED <<envVars, renderVars, appVars, summaryVars, editVars, regVars>>

\* the "finally" of handleSubmitExpense, then the "finally" of onSubmit:
\* the status message is shown and its timeout armed, and the form is reset
AddFinish(type, msg, outcome) ==
    /\ addStatusType' = type
    /\ addStatusMsg' = msg
    /\ addLoadingSubmit' = FALSE
    /\ addStatusTimer' = TRUE
    /\ addIsSubmitting' = FALSE
    /\ addValues' = [name |-> <<>>, amount |-> <<>>]
    /\ addErrors' = NoErrors
    /\ addTouched' = Untouched
    /\ addPc' = "idle"
    /\ addSubmitted' = NoSubmit
    /\ pendingCall' = NoCall
    /\ formAction' = outcome

\* "Guardar gasto" : Formik touches every field and validates; onSubmit runs
\* only with no error, and handleSubmitExpense runs up to getSession
AddSubmit ==
    /\ form = "add" /\ ~(addLoadingSubmit \/ addIsSubmitting)
    /\ addTouched' = [name |-> TRUE, amount |-> TRUE]
    /\ addErrors' = AddSchemaErrors(addValues)
    /\ IF AddSchemaErrors(addValues) # NoErrors
       THEN /\ formAction' = "rejected"
            /\ UNCHANGED <<addIsSubmitting, addLoadingSubmit, addStatusMsg,
                           addStatusType, addPc, addSubmitted>>
       ELSE /\ addIsSubmitting' = TRUE
            /\ addLoadingSubmit' = TRUE
            /\ addStatusMsg' = ""
            /\ addStatusType' = ""
            /\ addPc' = "getSession"
            /\ addSubmitted' = [name |-> addValues.name, amount |-> addValues.amount,
                                date |-> addDate]
            /\ formAction' = "submitting"
    /\ UNCHANGED <<form, pendingCall, addValues, addDate, addShowDatePicker,
                   addStatusTimer>>
    /\ UNCHANGED <<envVars, renderVars, appVars, summaryVars, editVars, regVars>>

\* getSession settles; then the date check, the amount parse and the insert
\* request follow without a pause
AddGetSession ==
    /\ form = "add" /\ addPc = "getSession"
    /\ \E outcome \in {"ok", "error", "throws"} :
        LET selectedOnly == NormalizeDate(addSubmitted.date, tz)
            todayOnly == NormalizeDate(now, tz)
            parsedAmount == ToNumber(ReplaceComma(addSubmitted.amount))
            isoDate == ToIsoDate(selectedOnly)
        IN  IF outcome = "throws"
            THEN /\ AddFinish("error", "Error inesperado. Intenta de nuevo.", "failed")
            ELSE IF outcome = "error" \/ ~session
            THEN /\ AddFinish("error", "Debes iniciar sesion para registrar un gasto.",
                              "failed")
            ELSE IF selectedOnly > todayOnly
            THEN /\ AddFinish("error", "La fecha del gasto no puede ser mayor que hoy.",
                              "failed")
            ELSE IF IsNaN(parsedAmount) \/ parsedAmount[1] <= 0
            THEN /\ AddFinish("error", "Ingresa un monto valido mayor que cero.",
                              "failed")
            ELSE /\ pendingCall' = [op |-> "insert",
                                 name |-> addSubmitted.name,
                                 amount |-> addSubmitted.amount,
                                 date |-> addSubmitted.date,
                                 sentName |-> Trim(addSubmitted.name),
                                 sentAmount |-> parsedAmount[1],
                                 sentDate |-> isoDate]
                 /\ addPc' = "insert"
                 /\ formAction' = "called"
                 /\ UNCHANGED <<addValues, addErrors, addTouched, addIsSubmitting,
                                addLoadingSubmit, addStatusMsg, addStatusType,
                                addStatusTimer, addSubmitted>>
    /\ UNCHANGED <<form, addDate, addShowDatePicker>>
    /\ UNCHANGED <<envVars, renderVars, appVars, summaryVars, editVars, regVars>>

\* the insert settles
AddInsert ==
    /\ form = "add" /\ addPc = "insert"
    /\ \E outcome \in {"ok", "error", "throws"} :
        IF outcome = "ok"
        THEN /\ AddFinish("success", "Gasto registrado correctamente.", "done")
             /\ addDate' = now
        ELSE IF outcome = "error"
        THEN /\ AddFinish("error", "Error al registrar gasto", "failed")
             /\ UNCHANGED addDate
        ELSE /\ AddFinish("error", "Error inesperado. Intenta de nuevo.", "failed")
             /\ UNCHANGED addDate
    /\ UNCHANGED <<form, addShowDatePicker>>
    /\ UNCHANGED <<envVars, renderVars, appVars, summaryVars, editVars, regVars>>

\* the 2500 ms timeout hides the status message
AddStatusTimeout ==
    /\ form = "add" /\ addStatusTimer
    /\ addStatusMsg' = ""
    /\ addStatusType' = ""
    /\ addStatusTimer' = FALSE
    /\ formAction' = "none"
    /\ UNCHANGED <<form, pendingCall, addValues, addErrors, addTouched,
                   addIsSubmitting, addDate, addShowDatePicker, addLoadingSubmit, addPc,
                   addSubmitted>>
    /\ UNCHANGED <<envVars, renderVars, appVars, summaryVars, editVars, regVars>>

NextAdd ==
    \/ AddMount
    \/ AddGoBack
    \/ AddChangeName
    \/ AddChangeAmount
    \/ AddBlur
    \/ AddOpenDatePicker
    \/ AddHandleChangeDate
    \/ AddSubmit
    \/ AddGetSession
    \/ AddInsert
    \/ AddStatusTimeout

(***************************************************************************)
(* EditExpenseScreen                                                       *)
(***************************************************************************)
\* route.params.expense
\* the saves that may succeed before the first goBack runs
MaxGoBackTimers == 2

EditedExpense == CHOOSE e \in ExpensePool : e.id = 1

\* what the user types in "Nombre" of the edit form: the names of the add
\* form and a blank one
EditNames == FormNames \cup {<<" ">>}

\* what the user types in "Fecha (YYYY-MM-DD)": today, tomorrow, "hoy",
\* "2024-13-45"
EditDateTexts ==
    {IsoText(2024, 5, 15), IsoText(2024, 5, 16), <<"h", "o", "y">>,
     IsoText(2024, 13, 45)}

\* /^\d{4}-\d{2}-\d{2}$/.test(text)
DateRegex(text) ==
    /\ Len(text) = 10
    /\ \A i \in {1, 2, 3, 4, 6, 7, 9, 10} : IsDigit(text[i])
    /\ text[5] = "-" /\ text[8] = "-"

\* new Date(text + 'T00:00:00') of a text that matches the pattern: local
\* midnight of the date, Invalid Date when the month or the day is out of
\* range
NewDateLocalMidnight(text, zone) ==
    LET y == NatOf(SubSeq(text, 1, 4))
        m == NatOf(SubSeq(text, 6, 7))
        d == NatOf(SubSeq(text, 9, 10))
    IN  IF m \in 1..12 /\ d \in 1..31 THEN <<LocalInstant(y, m, d, 0, zone)>> ELSE NaN

\* the messages validate() sets
EditNameError(name) == IF Trim(name) = <<>> THEN "El nombre es obligatorio." ELSE ""

EditAmountError(amount) ==
    LET num == ToNumber(amount)
    IN  IF Trim(amount) = <<>> \/ IsNaN(num) \/ num[1] <= 0
        THEN "Ingresa un monto valido mayor que 0." ELSE ""

\* the date check with ">=" for ">" : today is refused
EditDateErrorRefusingToday(date) ==
    IF ~DateRegex(date) THEN "La fecha debe tener el formato YYYY-MM-DD."
    ELSE LET inputDate == NewDateLocalMidnight(date, tz)
             today == NormalizeDate(now, tz)
         IN  IF ~IsNaN(inputDate) /\ inputDate[1] >= today
             THEN "La fecha no puede ser mayor a hoy." ELSE ""

EditDateError(date) ==
    IF ~DateRegex(date) THEN "La fecha debe tener el formato YYYY-MM-DD."
    ELSE LET inputDate == NewDateLocalMidnight(date, tz)
             today == NormalizeDate(now, tz)
         IN  IF ~IsNaN(inputDate) /\ inputDate[1] > today
             THEN "La fecha no puede ser mayor a hoy." ELSE ""

\* the result of validate()
EditValid(name, amount, date) ==
    /\ EditNameError(name) = ""
    /\ EditAmountError(amount) = ""
    /\ EditDateError(date) = ""

EditFormInitial ==
    /\ editName = <<>>
    /\ editAmount = <<>>
    /\ editDate = <<>>
    /\ editLoading = FALSE
    /\ nameError = ""
    /\ amountError = ""
    /\ dateError = ""
    /\ editSuccessMessage = ""
    /\ editErrorMessage = ""
    /\ editPc = "idle"
    /\ editGoBackTimer = 0
    /\ editGoBacks = 0
    /\ editErrorTimer = FALSE

\* the screen is dropped with its state
EditUnmount ==
    /\ form' = "none"
    /\ editName' = <<>>
    /\ editAmount' = <<>>
    /\ editDate' = <<>>
    /\ editLoading' = FALSE
    /\ nameError' = ""
    /\ amountError' = ""
    /\ dateError' = ""
    /\ editSuccessMessage' = ""
    /\ editErrorMessage' = ""
    /\ editPc' = "idle"
    /\ editErrorTimer' = FALSE
    /\ pendingCall' = NoCall
    /\ formAction' = "none"

\* navigation.navigate('EditExpense', { expense })
EditMount ==
    /\ form = "none" /\ editGoBackTimer = 0
    /\ form' = "edit"
    /\ editGoBacks' = 0
    /\ editName' = EditedExpense.name
    /\ editAmount' = NumberToText(EditedExpense.amount)
    /\ editDate' = EditedExpense.date
    /\ pendingCall' = NoCall
    /\ formAction' = "none"
    /\ UNCHANGED <<editLoading, nameError, amountError, dateError, editSuccessMessage,
                   editErrorMessage, editPc, editGoBackTimer, editErrorTimer>>
    /\ UNCHANGED <<envVars, renderVars, appVars, summaryVars, addVars, regVars>>

\* the header's back button, with no save in flight and no goBack pending
EditGoBack ==
    /\ form = "edit" /\ editPc = "idle" /\ editGoBackTimer = 0
    /\ EditUnmount
    /\ UNCHANGED <<editGoBackTimer, editGoBacks>>
    /\ UNCHANGED <<envVars, renderVars, appVars, summaryVars, addVars, regVars>>

EditSetName ==
    /\ form = "edit"
    /\ \E text \in EditNames : editName' = text
    /\ formAction' = "none"
    /\ UNCHANGED <<form, pendingCall, editAmount, editDate, editLoading, nameError,
                   amountError, dateError, editSuccessMessage, editErrorMessage, editPc,
                   editGoBackTimer, editGoBacks, editErrorTimer>>
    /\ UNCHANGED <<envVars, renderVars, appVars, summaryVars, addVars, regVars>>

EditSetAmount ==
    /\ form = "edit"
    /\ \E text \in FormAmounts : editAmount' = text
    /\ formAction' = "none"
    /\ UNCHANGED <<form, pendingCall, editName, editDate, editLoading, nameError,
                   amountError, dateError, editSuccessMessage, editErrorMessage, editPc,
                   editGoBackTimer, editGoBacks, editErrorTimer>>
    /\ UNCHANGED <<envVars, renderVars, appVars, summaryVars, addVars, regVars>>

EditSetDate ==
    /\ form = "edit"
    /\ \E text \in EditDateTexts : editDate' = text
    /\ formAction' = "none"
    /\ UNCHANGED <<form, pendingCall, editName, editAmount, editLoading, nameError,
                   amountError, dateError, editSuccessMessage, editErrorMessage, editPc,
                   editGoBackTimer, editGoBacks, editErrorTimer>>
    /\ UNCHANGED <<envVars, renderVars, appVars, summaryVars, addVars, regVars>>

\* "Guardar cambios" : validate(), and with no error the update request
HandleSave ==
    /\ form = "edit" /\ ~editLoading /\ editPc = "idle"
    /\ editGoBackTimer < MaxGoBackTimers
    /\ nameError' = EditNameError(editName)
    /\ amountError' = EditAmountError(editAmount)
    /\ dateError' = EditDateError(editDate)
    /\ editErrorMessage' = ""
    /\ editSuccessMessage' = ""
    /\ IF ~EditValid(editName, editAmount, editDate)
       THEN /\ formAction' = "rejected"
            /\ UNCHANGED <<pendingCall, editLoading, editPc>>
       ELSE /\ editLoading' = TRUE
            /\ pendingCall' = [op |-> "update",
                               name |-> editName,
                               amount |-> editAmount,
                               date |-> editDate,
                               sentName |-> Trim(editName),
                               sentAmount |-> ToNumber(editAmount)[1],
                               sentDate |-> editDate]
            /\ editPc' = "update"
            /\ formAction' = "called"
    /\ UNCHANGED <<form, editName, editAmount, editDate, editGoBackTimer,
                   editGoBacks, editErrorTimer>>
    /\ UNCHANGED <<envVars, renderVars, appVars, summaryVars, addVars, regVars>>

\* updateExpense settles: it resolves, or throws the backend's error
EditUpdate ==
    /\ form = "edit" /\ editPc = "update"
    /\ \E outcome \in {"ok", "throws"} :
        IF outcome = "ok"
        THEN /\ editSuccessMessage' = "Gasto actualizado correctamente"
             /\ editGoBackTimer' = editGoBackTimer + 1
             /\ formAction' = "done"
             /\ UNCHANGED <<editErrorMessage, editErrorTimer>>
        ELSE /\ editErrorMessage' = "No se pudo actualizar el gasto."
             /\ editErrorTimer' = TRUE
             /\ formAction' = "failed"
             /\ UNCHANGED <<editSuccessMessage, editGoBackTimer>>
    /\ editLoading' = FALSE
    /\ editPc' = "idle"
    /\ pendingCall' = NoCall
    /\ UNCHANGED <<form, editName, editAmount, editDate, nameError, amountError,
                   dateError, editGoBacks>>
    /\ UNCHANGED <<envVars, renderVars, appVars, summaryVars, addVars, regVars>>

\* 1500 ms after a success message: setSuccessMessage(null), goBack(); the
\* timeout is not cleared when the screen is left, and then goBack() acts on
\* the screens that remain
EditGoBackTimeout ==
    /\ editGoBackTimer > 0
    /\ \/ /\ form = "edit" /\ editPc = "idle"
          /\ EditUnmount
       \/ /\ form = "none"
          /\ UNCHANGED <<form, pendingCall, formAction, editName, editAmount, editDate,
                         editLoading, nameError, amountError, dateError,
                         editSuccessMessage, editErrorMessage, editPc, editErrorTimer>>
    /\ editGoBackTimer' = editGoBackTimer - 1
    /\ editGoBacks' = editGoBacks + 1
    /\ UNCHANGED <<envVars, renderVars, appVars, summaryVars, addVars, regVars>>

\* 3000 ms after the error message: setErrorMessage(null)
EditErrorTimeout ==
    /\ form = "edit" /\ editErrorTimer
    /\ editErrorMessage' = ""
    /\ editErrorTimer' = FALSE
    /\ formAction' = "none"
    /\ UNCHANGED <<form, pendingCall, editName, editAmount, editDate, editLoading,
                   nameError, amountError, dateError, editSuccessMessage, editPc,
                   editGoBackTimer, editGoBacks>>
    /\ UNCHANGED <<envVars, renderVars, appVars, summaryVars, addVars, regVars>>

\* "Eliminar gasto", then "Eliminar" in the confirmation: handleDelete up to
\* the delete request
EditDeleteConfirm ==
    /\ form = "edit" /\ ~editLoading /\ editPc = "idle"
    /\ editLoading' = TRUE
    /\ editPc' = "delete"
    /\ pendingCall' = [op |-> "delete", id |-> EditedExpense.id]
    /\ formAction' = "called"
    /\ UNCHANGED <<form, editName, editAmount, editDate, nameError, amountError,
                   dateError, editSuccessMessage, editErrorMessage, editGoBackTimer,
                   editGoBacks, editErrorTimer>>
    /\ UNCHANGED <<envVars, renderVars, appVars, summaryVars, addVars, regVars>>

\* deleteExpense settles: the alert 'Eliminado' waits for its OK, or the
\* catch shows the alert 'No se pudo eliminar el gasto.'
EditDelete ==
    /\ form = "edit" /\ editPc = "delete"
    /\ \E outcome \in {"ok", "throws"} :
        IF outcome = "ok"
        THEN /\ table' = {row \in table : row.id # pendingCall.id}
             /\ editPc' = "deleted"
             /\ formAction' = "done"
        ELSE /\ editPc' = "idle"
             /\ formAction' = "failed"
             /\ UNCHANGED table
    /\ editLoading' = FALSE
    /\ pendingCall' = NoCall
    /\ UNCHANGED <<form, editName, editAmount, editDate, nameError, amountError,
                   dateError, editSuccessMessage, editErrorMessage, editGoBackTimer,
                   editGoBacks, editErrorTimer>>
    /\ UNCHANGED <<renderVars, tz, platform, now, session, appVars, summaryVars,
                   addVars, regVars>>

\* "OK" of the alert 'Eliminado' : navigation.goBack()
EditDeletedOk ==
    /\ form = "edit" /\ editPc = "deleted"
    /\ EditUnmount
    /\ editGoBacks' = editGoBacks + 1
    /\ UNCHANGED editGoBackTimer
    /\ UNCHANGED <<envVars, renderVars, appVars, summaryVars, addVars, regVars>>

NextEdit ==
    \/ EditMount
    \/ EditGoBack
    \/ EditSetName
    \/ EditSetAmount
    \/ EditSetDate
    \/ HandleSave
    \/ EditUpdate
    \/ EditGoBackTimeout
    \/ EditErrorTimeout

\* the edit screen with its delete button
NextEditButtons ==
    \/ NextEdit
    \/ EditDeleteConfirm
    \/ EditDelete
    \/ EditDeletedOk

(***************************************************************************)
(* RegisterScreen                                                          *)
(***************************************************************************)
\* full names: "Juan", "Juan Perez", "Juan  Perez", "Ju4n Perez", "Ana Agüero",
\* " Ñu Pérez"
RegNames ==
    {<<"J", "u", "a", "n">>,
     <<"J", "u", "a", "n", " ", "P", "e", "r", "e", "z">>,
     <<"J", "u", "a", "n", " ", " ", "P", "e", "r", "e", "z">>,
     <<"J", "u", "4", "n", " ", "P", "e", "r", "e", "z">>,
     <<"A", "n", "a", " ", "A", "g", "ü", "e", "r", "o">>,
     <<" ", "Ñ", "u", " ", "P", "é", "r", "e", "z">>}
\* e-mails: "a@b.co", "abc"
RegEmails == {<<"a", "@", "b", ".", "c", "o">>, <<"a", "b", "c">>}
\* passwords: "abcdefg1", "abcdefg1!", "12345678", "ab1!", "abcdefñ1"
RegPasswords ==
    {<<"a", "b", "c", "d", "e", "f", "g", "1">>,
     <<"a", "b", "c", "d", "e", "f", "g", "1", "!">>,
     <<"1", "2", "3", "4", "5", "6", "7", "8">>,
     <<"a", "b", "1", "!">>,
     <<"a", "b", "c", "d", "e", "f", "ñ", "1">>}
\* confirmations: "abcdefg1!", "abcdefg1"
RegConfirmations ==
    {<<"a", "b", "c", "d", "e", "f", "g", "1", "!">>,
     <<"a", "b", "c", "d", "e", "f", "g", "1">>}

RegFields == {"fullName", "email", "password", "confirmPassword"}
RegNoErrors == [f \in RegFields |-> ""]
RegUntouched == [f \in RegFields |-> FALSE]
RegInitialValues == [f \in RegFields |-> <<>>]

\* the characters of the classes A-Z and a-z
AsciiLetters ==
    {UpperLetters[i] : i \in 1..Len(UpperLetters)} \cup
    {LowerLetters[i] : i \in 1..Len(LowerLetters)}

IsAsciiLetter(c) == c \in AsciiLetters

\* the accented letters of nameRegex
AccentedLetters == {"Á", "É", "Í", "Ó", "Ú", "á", "é", "í", "ó", "ú", "Ñ", "ñ"}

\* nameRegex.test(value) : /^[A-Za-z...\s]+$/
NameRegex(value) ==
    /\ value # <<>>
    /\ \A i \in 1..Len(value) :
          IsAsciiLetter(value[i]) \/ value[i] \in AccentedLetters \/ IsSpace(value[i])

\* /\s{2,}/.test(value)
HasDoubleSpace(value) ==
    \E i \in 1..(Len(value) - 1) : IsSpace(value[i]) /\ IsSpace(value[i + 1])

RECURSIVE CountParts(_)
\* value.trim().split(/\s+/).length of a trimmed text
CountParts(t) ==
    IF t = <<>> THEN 1
    ELSE IF IsSpace(Head(t)) THEN 1 + CountParts(TrimStart(t))
    ELSE CountParts(Tail(t))

\* registerSchema.fullName : the message of the first rule that fails
RegNameError(value) ==
    IF value = <<>> THEN "El nombre es obligatorio"
    ELSE IF ~NameRegex(value) THEN "Solo se permiten letras y espacios"
    ELSE IF HasDoubleSpace(value) THEN "No uses espacios dobles"
    ELSE IF CountParts(Trim(value)) < 2 THEN "Ingresa nombre y apellido"
    ELSE ""

\* Yup's email rule, reduced to: one "@" with text on both sides
EmailOk(value) ==
    /\ Cardinality({i \in 1..Len(value) : value[i] = "@"}) = 1
    /\ value[1] # "@" /\ value[Len(value)] # "@"

RegEmailError(value) ==
    IF value = <<>> THEN "El correo es obligatorio"
    ELSE IF ~EmailOk(value) THEN "Correo invalido"
    ELSE ""

\* the denylist of the 'no-comun' test; its 'contrasena' entry holds a
\* letter outside the model's alphabet
WeakPasswords ==
    {<<"1", "2", "3", "4", "5", "6">>,
     <<"1", "2", "3", "4", "5", "6", "7">>,
     <<"1", "2", "3", "4", "5", "6", "7", "8">>,
     <<"1", "2", "3", "4", "5", "6", "7", "8", "9">>,
     <<"p", "a", "s", "s", "w", "o", "r", "d">>}

PasswordMinLength == 8

\* the password rules without the rule of the special character
RegPasswordErrorNoSpecial(value) ==
    IF value = <<>> THEN "La contrasena es obligatoria"
    ELSE IF Len(value) < PasswordMinLength THEN "Minimo 8 caracteres"
    ELSE IF ~\E i \in 1..Len(value) : IsAsciiLetter(value[i]) THEN "Debe incluir letras"
    ELSE IF ~\E i \in 1..Len(value) : IsDigit(value[i]) THEN "Debe incluir numeros"
    ELSE IF value \in WeakPasswords THEN "La contrasena es muy debil, intenta con otra."
    ELSE ""

\* registerSchema.password : the message of the first rule that fails
RegPasswordError(value) ==
    IF value = <<>> THEN "La contrasena es obligatoria"
    ELSE IF Len(value) < PasswordMinLength THEN "Minimo 8 caracteres"
    ELSE IF ~\E i \in 1..Len(value) : IsAsciiLetter(value[i]) THEN "Debe incluir letras"
    ELSE IF ~\E i \in 1..Len(value) : IsDigit(value[i]) THEN "Debe incluir numeros"
    ELSE IF ~\E i \in 1..Len(value) : ~IsAsciiLetter(value[i]) /\ ~IsDigit(value[i])
         THEN "Debe incluir al menos un caracter especial"
    ELSE IF value \in WeakPasswords THEN "La contrasena es muy debil, intenta con otra."
    ELSE ""

\* registerSchema.confirmPassword : required, oneOf([ref('password')])
RegConfirmError(value, password) ==
    IF value = <<>> THEN "Confirma tu contrasena"
    ELSE IF value # password THEN "Las contrasenas no coinciden"
    ELSE ""

RegSchemaErrors(values) ==
    [fullName |-> RegNameError(values.fullName),
     email |-> RegEmailError(values.email),
     password |-> RegPasswordError(values.password),
     confirmPassword |-> RegConfirmError(values.confirmPassword, values.password)]

RegFormInitial ==
    /\ regValues = RegInitialValues
    /\ regErrors = RegNoErrors
    /\ regTouched = RegUntouched
    /\ regLoading = FALSE
    /\ regSuccessMessage = ""
    /\ regErrorMessage = ""
    /\ regPc = "idle"
    /\ regMessageTimer = FALSE

\* navigation.navigate('Register')
RegMount ==
    /\ form = "none"
    /\ form' = "register"
    /\ pendingCall' = NoCall
    /\ formAction' = "none"
    /\ UNCHANGED regVars
    /\ UNCHANGED <<envVars, renderVars, appVars, summaryVars, addVars, editVars>>

\* navigation.navigate('Login'), with no sign-up in flight
RegLeave ==
    /\ form = "register" /\ regPc = "idle"
    /\ form' = "none"
    /\ regValues' = RegInitialValues
    /\ regErrors' = RegNoErrors
    /\ regTouched' = RegUntouched
    /\ regLoading' = FALSE
    /\ regSuccessMessage' = ""
    /\ regErrorMessage' = ""
    /\ regPc' = "idle"
    /\ regMessageTimer' = FALSE
    /\ pendingCall' = NoCall
    /\ formAction' = "none"
    /\ UNCHANGED <<envVars, renderVars, appVars, summaryVars, addVars, editVars>>

\* onChangeText of a field: both messages are cleared, the value changes and
\* the schema is validated
RegChange ==
    /\ form = "register"
    /\ \E field \in RegFields :
        \E text \in (CASE field = "fullName" -> RegNames
                       [] field = "email" -> RegEmails
                       [] field = "password" -> RegPasswords
                       [] OTHER -> RegConfirmations) :
            /\ regValues' = [regValues EXCEPT ![field] = text]
            /\ regErrors' = RegSchemaErrors([regValues EXCEPT ![field] = text])
    /\ regErrorMessage' = ""
    /\ regSuccessMessage' = ""
    /\ formAction' = "none"
    /\ UNCHANGED <<form, pendingCall, regTouched, regLoading, regPc, regMessageTimer>>
    /\ UNCHANGED <<envVars, renderVars, appVars, summaryVars, addVars, editVars>>

\* handleBlur(field)
RegBlur ==
    /\ form = "register"
    /\ \E field \in RegFields : regTouched' = [regTouched EXCEPT ![field] = TRUE]
    /\ regErrors' = RegSchemaErrors(regValues)
    /\ formAction' = "none"
    /\ UNCHANGED <<form, pendingCall, regValues, regLoading, regSuccessMessage,
                   regErrorMessage, regPc, regMessageTimer>>
    /\ UNCHANGED <<envVars, renderVars, appVars, summaryVars, addVars, editVars>>

\* "Registrarse" : Formik touches every field and validates; with no error
\* handleRegister runs up to the signUp request
RegSubmit ==
    /\ form = "register" /\ ~regLoading
    /\ regTouched' = [f \in RegFields |-> TRUE]
    /\ regErrors' = RegSchemaErrors(regValues)
    /\ IF RegSchemaErrors(regValues) # RegNoErrors
       THEN /\ formAction' = "rejected"
            /\ UNCHANGED <<pendingCall, regLoading, regSuccessMessage, regErrorMessage,
                           regPc>>
       ELSE /\ regLoading' = TRUE
            /\ regSuccessMessage' = ""
            /\ regErrorMessage' = ""
            /\ pendingCall' = [op |-> "signUp",
                               fullName |-> regValues.fullName,
                               email |-> regValues.email,
                               password |-> regValues.password,
                               confirmPassword |-> regValues.confirmPassword,
                               sentEmail |-> Trim(regValues.email),
                               sentName |-> Trim(regValues.fullName)]
            /\ regPc' = "signUp"
            /\ formAction' = "called"
    /\ UNCHANGED <<form, regValues, regMessageTimer>>
    /\ UNCHANGED <<envVars, renderVars, appVars, summaryVars, addVars, editVars>>

\* signUp settles: a user, an error, no user, or an exception
RegSignUp ==
    /\ form = "register" /\ regPc = "signUp"
    /\ \E outcome \in {"ok", "error", "noUser", "throws"} :
        IF outcome = "ok"
        THEN /\ regSuccessMessage' = "Cuenta creada correctamente"
             /\ regValues' = RegInitialValues
             /\ regErrors' = RegNoErrors
             /\ regTouched' = RegUntouched
             /\ formAction' = "done"
             /\ UNCHANGED regErrorMessage
        ELSE /\ regErrorMessage' =
                    (CASE outcome = "error" -> "No se pudo crear la cuenta."
                       [] outcome = "noUser" -> "Registro no completado."
                       [] OTHER -> "Ocurrio un error inesperado.")
             /\ formAction' = "failed"
             /\ UNCHANGED <<regSuccessMessage, regValues, regErrors, regTouched>>
    /\ regMessageTimer' = TRUE
    /\ regLoading' = FALSE
    /\ regPc' = "idle"
    /\ pendingCall' = NoCall
    /\ UNCHANGED form
    /\ UNCHANGED <<envVars, renderVars, appVars, summaryVars, addVars, editVars>>

\* a 3000 ms timeout hides the message it was armed for
RegMessageTimeout ==
    /\ form = "register" /\ regMessageTimer
    /\ \/ regSuccessMessage' = "" /\ UNCHANGED regErrorMessage
       \/ regErrorMessage' = "" /\ UNCHANGED regSuccessMessage
    /\ regMessageTimer' = FALSE
    /\ formAction' = "none"
    /\ UNCHANGED <<form, pendingCall, regValues, regErrors, regTouched, regLoading, regPc>>
    /\ UNCHANGED <<envVars, renderVars, appVars, summaryVars, addVars, editVars>>

NextRegister ==
    \/ RegMount
    \/ RegLeave
    \/ RegChange
    \/ RegBlur
    \/ RegSubmit
    \/ RegSignUp
    \/ RegMessageTimeout

(***************************************************************************)
(* AuthLoadingScreen, LoginScreen, HomeScreen                              *)
(***************************************************************************)
\* calls of loadExpenses that may be in flight at once
MaxLoads == 2

\* e-mails typed in LoginScreen: "a@b.co", "abc"
LoginEmails == {<<"a", "@", "b", ".", "c", "o">>, <<"a", "b", "c">>}
\* passwords typed in LoginScreen: "abcdefg1!"
LoginPasswords == {<<"a", "b", "c", "d", "e", "f", "g", "1", "!">>}

LoginNoErrors == [email |-> "", password |-> ""]
LoginInitialValues == [email |-> <<>>, password |-> <<>>]

\* loginSchema : one message per field
LoginSchemaErrors(values) ==
    [email |-> IF values.email = <<>> THEN "El correo es obligatorio"
               ELSE IF ~EmailOk(values.email) THEN "Correo invalido"
               ELSE "",
     password |-> IF values.password = <<>> THEN "La contrasena es obligatoria"
                  ELSE ""]

\* a call of loadExpenses that has just started
NewLoad == [answered |-> FALSE, rows |-> <<>>, overtaken |-> FALSE]

NoAttempt == [result |-> "none", session |-> FALSE, upsert |-> "none"]
NoFailure == [action |-> "none", messages |-> 0]

\* useState initial values of LoginScreen
LoginInitial ==
    /\ loginValues = LoginInitialValues
    /\ loginErrors = LoginNoErrors
    /\ loginLoading = FALSE
    /\ loginErrorMessage = ""
    /\ loginErrorTimer = FALSE
    /\ loginPc = "idle"

\* useState initial values of HomeScreen, nothing in flight
HomeInitial ==
    /\ homeFullName = <<>>
    /\ homeLoadingProfile = TRUE
    /\ homeLoggingOut = FALSE
    /\ homeProfilePc = "idle"
    /\ homeLogoutPc = "idle"
    /\ homeExpenses = <<>>
    /\ homeLoading = FALSE
    /\ homeLoads = 0
    /\ homeDeletePc = 0
    /\ homeAlert = ""
    /\ homeReturned = <<>>
    /\ homeInFlight = <<>>
    /\ homeLatest = <<>>

\* LoginScreen is mounted afresh
LoginEnter ==
    /\ loginValues' = LoginInitialValues
    /\ loginErrors' = LoginNoErrors
    /\ loginLoading' = FALSE
    /\ loginErrorMessage' = ""
    /\ loginErrorTimer' = FALSE
    /\ loginPc' = "idle"

\* HomeScreen is dropped or not yet mounted
HomeLeave ==
    /\ homeFullName' = <<>>
    /\ homeLoadingProfile' = TRUE
    /\ homeLoggingOut' = FALSE
    /\ homeProfilePc' = "idle"
    /\ homeLogoutPc' = "idle"
    /\ homeExpenses' = <<>>
    /\ homeLoading' = FALSE
    /\ homeLoads' = 0
    /\ homeDeletePc' = 0
    /\ homeAlert' = ""
    /\ homeReturned' = <<>>
    /\ homeInFlight' = <<>>
    /\ homeLatest' = <<>>

\* HomeScreen is mounted: useEffect starts loadProfile, useFocusEffect
\* starts loadExpenses, each up to its first await
HomeEnter ==
    /\ homeFullName' = <<>>
    /\ homeLoadingProfile' = TRUE
    /\ homeLoggingOut' = FALSE
    /\ homeProfilePc' = "getSession"
    /\ homeLogoutPc' = "idle"
    /\ homeExpenses' = <<>>
    /\ homeLoading' = TRUE
    /\ homeLoads' = 1
    /\ homeDeletePc' = 0
    /\ homeAlert' = ""
    /\ homeReturned' = <<>>
    /\ homeInFlight' = <<NewLoad>>
    /\ homeLatest' = <<>>

\* the app process starts: AuthLoading is the initial route; the client's
\* session store either kept the session or is empty again
AppRestart ==
    /\ appRoute' = "AuthLoading"
    /\ checkSessionPc' = "getSession"
    /\ session' \in {session, FALSE}
    /\ LoginEnter
    /\ HomeLeave
    /\ attempt' = NoAttempt
    /\ lastFailure' = NoFailure
    /\ UNCHANGED <<renderVars, tz, platform, now, table, bioSupport, bioBlocked>>
    /\ UNCHANGED <<summaryVars, formVars>>

\* AuthLoadingScreen.checkSession : getSession settles.  It answers with
\* the stored session, or with an error and no session; or it rejects, and
\* checkSession, which has no catch, ends there with no navigation.reset.
CheckSession ==
    /\ appRoute = "AuthLoading" /\ checkSessionPc = "getSession"
    /\ \E outcome \in {"ok", "error", "throws"} :
        IF outcome = "throws"
        THEN /\ checkSessionPc' = "threw"
             /\ UNCHANGED <<appRoute, loginVars, homeVars>>
        ELSE IF outcome = "ok" /\ session
        THEN /\ checkSessionPc' = "done"
             /\ appRoute' = "Home"
             /\ HomeEnter
             /\ UNCHANGED loginVars
        ELSE /\ checkSessionPc' = "done"
             /\ appRoute' = "Login"
             /\ LoginEnter
             /\ UNCHANGED homeVars
    /\ UNCHANGED <<bioSupport, attempt, bioBlocked, lastFailure>>
    /\ UNCHANGED <<envVars, renderVars, summaryVars, formVars>>

\* the backend session ends (expiry, revocation)
SessionEnds ==
    /\ session
    /\ appRoute = "Home"
    /\ session' = FALSE
    /\ UNCHANGED <<renderVars, tz, platform, now, table>>
    /\ UNCHANGED <<appVars, summaryVars, formVars>>

\* onChangeText of LoginScreen: setErrorMessage(null), handleChange
LoginChange ==
    /\ appRoute = "Login"
    /\ \/ \E text \in LoginEmails :
            /\ loginValues' = [loginValues EXCEPT !.email = text]
            /\ loginErrors' = LoginSchemaErrors([loginValues EXCEPT !.email = text])
       \/ \E text \in LoginPasswords :
            /\ loginValues' = [loginValues EXCEPT !.password = text]
            /\ loginErrors' = LoginSchemaErrors([loginValues EXCEPT !.password = text])
    /\ loginErrorMessage' = ""
    /\ UNCHANGED <<loginLoading, loginErrorTimer, loginPc>>
    /\ UNCHANGED <<appRoute, bioSupport, checkSessionPc, attempt, bioBlocked, lastFailure, homeVars>>
    /\ UNCHANGED <<envVars, renderVars, summaryVars, formVars>>

\* "Entrar" : Formik validates; with no error handleLogin runs up to
\* signInWithPassword
LoginSubmit ==
    /\ appRoute = "Login" /\ ~loginLoading /\ loginPc = "idle"
    /\ loginErrors' = LoginSchemaErrors(loginValues)
    /\ IF LoginSchemaErrors(loginValues) # LoginNoErrors
       THEN UNCHANGED <<loginLoading, loginErrorMessage, loginPc, attempt, lastFailure>>
       ELSE /\ loginLoading' = TRUE
            /\ loginErrorMessage' = ""
            /\ loginPc' = "signIn"
            /\ attempt' = [result |-> "running", session |-> FALSE, upsert |-> "none"]
            /\ lastFailure' = NoFailure
    /\ UNCHANGED <<loginValues, loginErrorTimer>>
    /\ UNCHANGED <<appRoute, bioSupport, checkSessionPc, bioBlocked, homeVars>>
    /\ UNCHANGED <<envVars, renderVars, summaryVars, formVars>>

\* handleLogin ends with a message: the catch or an early return, then
\* "finally"
LoginFails(message, timer) ==
    /\ loginErrorMessage' = message
    /\ loginErrorTimer' = (timer \/ loginErrorTimer)
    /\ loginLoading' = FALSE
    /\ loginPc' = "idle"
    /\ UNCHANGED <<loginValues, loginErrors>>

\* signInWithPassword settles
LoginSignIn ==
    /\ appRoute = "Login" /\ loginPc = "signIn"
    /\ \E outcome \in {"ok", "error", "noSession", "throws"} :
        IF outcome = "ok"
        THEN /\ session' = TRUE
             /\ attempt' = [attempt EXCEPT !.session = TRUE]
             /\ loginPc' = "upsert"
             /\ UNCHANGED <<loginValues, loginErrors, loginLoading, loginErrorMessage,
                            loginErrorTimer, lastFailure>>
        ELSE /\ LoginFails(CASE outcome = "error" -> "Correo o contrasena incorrectos."
                             [] outcome = "noSession" -> "No se pudo crear la sesion."
                             [] OTHER -> "Ocurrio un error inesperado.", TRUE)
             /\ attempt' = [attempt EXCEPT !.result = "failed"]
             /\ lastFailure' = IF outcome = "noSession" THEN lastFailure
                               ELSE [action |-> "signIn", messages |-> 1]
             /\ UNCHANGED session
    /\ UNCHANGED <<renderVars, tz, platform, now, table>>
    /\ UNCHANGED <<appRoute, bioSupport, checkSessionPc, bioBlocked, homeVars>>
    /\ UNCHANGED <<summaryVars, formVars>>

\* the profiles upsert settles: its result object is not read; only an
\* exception reaches the catch
LoginUpsert ==
    /\ appRoute = "Login" /\ loginPc = "upsert"
    /\ \E outcome \in {"ok", "error", "throws"} :
        IF outcome = "throws"
        THEN /\ LoginFails("Ocurrio un error inesperado.", TRUE)
             /\ attempt' = [attempt EXCEPT !.result = "failed", !.upsert = "error"]
             /\ lastFailure' = [action |-> "upsert", messages |-> 1]
        ELSE /\ loginPc' = "support"
             /\ attempt' = [attempt EXCEPT !.upsert = IF outcome = "ok" THEN "applied"
                                                       ELSE "error"]
             /\ lastFailure' = IF outcome = "ok" THEN lastFailure
                               ELSE [action |-> "upsert", messages |-> 0]
             /\ UNCHANGED <<loginValues, loginErrors, loginLoading, loginErrorMessage,
                            loginErrorTimer>>
    /\ UNCHANGED <<appRoute, bioSupport, checkSessionPc, bioBlocked, homeVars>>
    /\ UNCHANGED <<envVars, renderVars, summaryVars, formVars>>

\* navigation.replace('Home'), then "finally"
LoginAdmits ==
    /\ appRoute' = "Home"
    /\ HomeEnter
    /\ LoginEnter
    /\ attempt' = [attempt EXCEPT !.result = "admitted"]
    /\ bioBlocked' = FALSE

\* checkBiometricSupport settles
LoginCheckSupport ==
    /\ appRoute = "Login" /\ loginPc = "support"
    /\ \E outcome \in {"ok", "throws"} :
        IF outcome = "throws"
        THEN /\ LoginFails("Ocurrio un error inesperado.", TRUE)
             /\ attempt' = [attempt EXCEPT !.result = "failed"]
             /\ UNCHANGED <<appRoute, bioBlocked, homeVars>>
        ELSE IF bioSupport
        THEN /\ loginPc' = "prompt"
             /\ UNCHANGED <<loginValues, loginErrors, loginLoading, loginErrorMessage,
                            loginErrorTimer, attempt, appRoute, bioBlocked, homeVars>>
        ELSE LoginAdmits
    /\ UNCHANGED <<bioSupport, checkSessionPc, lastFailure>>
    /\ UNCHANGED <<envVars, renderVars, summaryVars, formVars>>

\* requestBiometricAuth settles
LoginPrompt ==
    /\ appRoute = "Login" /\ loginPc = "prompt"
    /\ \E outcome \in {"success", "cancelled", "throws"} :
        IF outcome = "success"
        THEN LoginAdmits
        ELSE /\ IF outcome = "cancelled"
                THEN LoginFails("Autenticacion biometrica cancelada.", FALSE)
                ELSE LoginFails("Ocurrio un error inesperado.", TRUE)
             /\ attempt' = [attempt EXCEPT !.result = "failed"]
             /\ bioBlocked' = TRUE
             /\ UNCHANGED <<appRoute, homeVars>>
    /\ UNCHANGED <<bioSupport, checkSessionPc, lastFailure>>
    /\ UNCHANGED <<envVars, renderVars, summaryVars, formVars>>

\* the 3000 ms timeout: setErrorMessage(null)
LoginErrorTimeout ==
    /\ appRoute = "Login" /\ loginErrorTimer
    /\ loginErrorMessage' = ""
    /\ loginErrorTimer' = FALSE
    /\ UNCHANGED <<loginValues, loginErrors, loginLoading, loginPc>>
    /\ UNCHANGED <<appRoute, bioSupport, checkSessionPc, attempt, bioBlocked, lastFailure, homeVars>>
    /\ UNCHANGED <<envVars, renderVars, summaryVars, formVars>>

\* navigation.reset to Login from the Home screen
HomeResetToLogin ==
    /\ appRoute' = "Login"
    /\ LoginEnter
    /\ HomeLeave

\* loadProfile: getSession settles
HomeProfileGetSession ==
    /\ appRoute = "Home" /\ homeProfilePc = "getSession"
    /\ \E error \in BOOLEAN :
        IF error
        THEN /\ homeLoadingProfile' = FALSE
             /\ homeProfilePc' = "done"
             /\ lastFailure' = [action |-> "loadProfile", messages |-> 0]
             /\ UNCHANGED <<appRoute, loginVars, homeFullName, homeLoggingOut,
                            homeLogoutPc, homeExpenses, homeLoading, homeLoads,
                            homeDeletePc, homeAlert, homeReturned,
                   homeInFlight, homeLatest>>
        ELSE IF ~session
        THEN /\ HomeResetToLogin
             /\ UNCHANGED lastFailure
        ELSE /\ homeProfilePc' = "select"
             /\ UNCHANGED <<appRoute, loginVars, lastFailure, homeFullName,
                            homeLoadingProfile, homeLoggingOut, homeLogoutPc,
                            homeExpenses, homeLoading, homeLoads, homeDeletePc,
                            homeAlert, homeReturned,
                   homeInFlight, homeLatest>>
    /\ UNCHANGED <<bioSupport, checkSessionPc, attempt, bioBlocked>>
    /\ UNCHANGED <<envVars, renderVars, summaryVars, formVars>>

\* the names a profile row may hold: none, "Juan Perez"
ProfileNames == {<<>>, <<<<"J", "u", "a", "n", " ", "P", "e", "r", "e", "z">>>>}

\* loadProfile: the select on "profiles" settles
HomeProfileSelect ==
    /\ appRoute = "Home" /\ homeProfilePc = "select"
    /\ \E error \in BOOLEAN, name \in ProfileNames :
        IF error
        THEN /\ lastFailure' = [action |-> "loadProfile", messages |-> 0]
             /\ UNCHANGED homeFullName
        ELSE /\ homeFullName' = name
             /\ UNCHANGED lastFailure
    /\ homeLoadingProfile' = FALSE
    /\ homeProfilePc' = "done"
    /\ UNCHANGED <<homeLoggingOut, homeLogoutPc, homeExpenses, homeLoading, homeLoads,
                   homeDeletePc, homeAlert, homeReturned,
                   homeInFlight, homeLatest>>
    /\ UNCHANGED <<appRoute, bioSupport, checkSessionPc, attempt, bioBlocked, loginVars>>
    /\ UNCHANGED <<envVars, renderVars, summaryVars, formVars>>

\* the screen regains focus: useFocusEffect calls loadExpenses again
HomeFocus ==
    /\ appRoute = "Home" /\ homeLoads < MaxLoads
    /\ homeLoads' = homeLoads + 1
    /\ homeInFlight' = Append(homeInFlight, NewLoad)
    /\ homeLoading' = TRUE
    /\ UNCHANGED <<homeFullName, homeLoadingProfile, homeLoggingOut, homeProfilePc,
                   homeLogoutPc, homeExpenses, homeDeletePc, homeAlert, homeReturned,
                   homeLatest>>
    /\ UNCHANGED <<appRoute, bioSupport, checkSessionPc, attempt, bioBlocked, lastFailure, loginVars>>
    /\ UNCHANGED <<envVars, renderVars, summaryVars, formVars>>

\* the rows appended to the list already shown
LoadedListMerged(previous, data) == previous \o data

\* setExpenses(data || []) : the rows replace the list
LoadedList(previous, data) == data

\* the select of a call in flight is answered by the backend: the rows of
\* the table at that moment
HomeSelectAnswered ==
    /\ appRoute = "Home"
    /\ \E i \in 1..Len(homeInFlight), data \in OrderByDateDesc(table) :
        /\ ~homeInFlight[i].answered
        /\ homeInFlight' = [homeInFlight EXCEPT ![i].answered = TRUE, ![i].rows = data]
    /\ UNCHANGED <<homeFullName, homeLoadingProfile, homeLoggingOut, homeProfilePc,
                   homeLogoutPc, homeExpenses, homeLoading, homeLoads, homeDeletePc,
                   homeAlert, homeReturned, homeLatest>>
    /\ UNCHANGED <<appRoute, bioSupport, checkSessionPc, attempt, bioBlocked, lastFailure, loginVars>>
    /\ UNCHANGED <<envVars, renderVars, summaryVars, formVars>>

\* the calls in flight without call i; the calls that started before it have
\* been overtaken
WithoutLoad(inFlight, i) ==
    [j \in 1..(Len(inFlight) - 1) |->
        IF j < i THEN [inFlight[j] EXCEPT !.overtaken = TRUE] ELSE inFlight[j + 1]]

\* a call of loadExpenses settles: getExpenses throws with no user or on a
\* backend error, otherwise the rows replace the list
HomeLoadExpenses ==
    /\ appRoute = "Home" /\ homeLoads > 0
    /\ \E error \in BOOLEAN, i \in 1..Len(homeInFlight) :
        /\ homeInFlight[i].answered
        /\ homeInFlight' = WithoutLoad(homeInFlight, i)
        /\ IF error \/ ~session
           THEN /\ homeAlert' = "No se pudieron cargar los gastos."
                /\ lastFailure' = [action |-> "loadExpenses", messages |-> 1]
                /\ homeReturned' = <<>>
                /\ homeLatest' = IF homeInFlight[i].overtaken THEN homeLatest ELSE <<>>
                /\ UNCHANGED homeExpenses
           ELSE /\ homeExpenses' = LoadedList(homeExpenses, homeInFlight[i].rows)
                /\ homeReturned' = <<homeInFlight[i].rows>>
                /\ homeLatest' = IF homeInFlight[i].overtaken THEN homeLatest
                                  ELSE <<homeInFlight[i].rows>>
                /\ UNCHANGED <<homeAlert, lastFailure>>
    /\ homeLoading' = FALSE
    /\ homeLoads' = homeLoads - 1
    /\ UNCHANGED <<homeFullName, homeLoadingProfile, homeLoggingOut, homeProfilePc,
                   homeLogoutPc, homeDeletePc>>
    /\ UNCHANGED <<appRoute, bioSupport, checkSessionPc, attempt, bioBlocked, loginVars>>
    /\ UNCHANGED <<envVars, renderVars, summaryVars, formVars>>

\* handleDelete: "Eliminar" is confirmed for a listed row
HomeDeleteConfirm ==
    /\ appRoute = "Home" /\ homeDeletePc = 0
    /\ \E i \in 1..Len(homeExpenses) : homeDeletePc' = homeExpenses[i].id
    /\ UNCHANGED <<homeFullName, homeLoadingProfile, homeLoggingOut, homeProfilePc,
                   homeLogoutPc, homeExpenses, homeLoading, homeLoads, homeAlert,
                   homeReturned,
                   homeInFlight, homeLatest>>
    /\ UNCHANGED <<appRoute, bioSupport, checkSessionPc, attempt, bioBlocked, lastFailure, loginVars>>
    /\ UNCHANGED <<envVars, renderVars, summaryVars, formVars>>

\* deleteExpense settles: on success loadExpenses is called, otherwise the
\* catch shows an alert
HomeDeleteExpense ==
    /\ appRoute = "Home" /\ homeDeletePc # 0 /\ homeLoads < MaxLoads
    /\ \E error \in BOOLEAN :
        IF error
        THEN /\ homeAlert' = "No se pudo eliminar el gasto."
             /\ lastFailure' = [action |-> "deleteExpense", messages |-> 1]
             /\ UNCHANGED <<table, homeLoads, homeInFlight, homeLoading>>
        ELSE /\ table' = {row \in table : row.id # homeDeletePc}
             /\ homeLoads' = homeLoads + 1
             /\ homeInFlight' = Append(homeInFlight, NewLoad)
             /\ homeLoading' = TRUE
             /\ UNCHANGED <<homeAlert, lastFailure>>
    /\ homeDeletePc' = 0
    /\ UNCHANGED <<homeFullName, homeLoadingProfile, homeLoggingOut, homeProfilePc,
                   homeLogoutPc, homeExpenses, homeReturned,
                   homeLatest>>
    /\ UNCHANGED <<appRoute, bioSupport, checkSessionPc, attempt, bioBlocked, loginVars>>
    /\ UNCHANGED <<renderVars, tz, platform, now, session, summaryVars, formVars>>

\* "Cerrar sesion" : handleLogout up to signOut
HomeLogout ==
    /\ appRoute = "Home" /\ ~homeLoggingOut /\ homeLogoutPc = "idle"
    /\ homeLoggingOut' = TRUE
    /\ homeLogoutPc' = "signOut"
    /\ UNCHANGED <<homeFullName, homeLoadingProfile, homeProfilePc, homeExpenses,
                   homeLoading, homeLoads, homeDeletePc, homeAlert, homeReturned,
                   homeInFlight, homeLatest>>
    /\ UNCHANGED <<appRoute, bioSupport, checkSessionPc, attempt, bioBlocked, lastFailure, loginVars>>
    /\ UNCHANGED <<envVars, renderVars, summaryVars, formVars>>

\* signOut settles: its result object is not read, navigation is reset to
\* Login; only an exception reaches the catch
HomeSignOut ==
    /\ appRoute = "Home" /\ homeLogoutPc = "signOut"
    /\ \E outcome \in {"ok", "error", "throws"} :
        IF outcome = "throws"
        THEN /\ homeAlert' = "No se pudo cerrar sesion."
             /\ homeLoggingOut' = FALSE
             /\ homeLogoutPc' = "idle"
             /\ lastFailure' = [action |-> "signOut", messages |-> 1]
             /\ UNCHANGED <<session, appRoute, loginVars, homeFullName,
                            homeLoadingProfile, homeProfilePc, homeExpenses,
                            homeLoading, homeLoads, homeDeletePc, homeReturned,
                   homeInFlight, homeLatest>>
        ELSE /\ session' = (IF outcome = "ok" THEN FALSE ELSE session)
             /\ HomeResetToLogin
             /\ lastFailure' = IF outcome = "ok" THEN lastFailure
                               ELSE [action |-> "signOut", messages |-> 0]
    /\ UNCHANGED <<bioSupport, checkSessionPc, attempt, bioBlocked>>
    /\ UNCHANGED <<renderVars, tz, platform, now, table, summaryVars, formVars>>

\* "Cerrar sesion" of the HomeScreen that lists the expenses (and of
\* ProfileScreen, whose handler is the same): handleLogout up to signOut()
HomeListLogout ==
    /\ appRoute = "Home" /\ homeLogoutPc = "idle"
    /\ homeLogoutPc' = "signOut"
    /\ UNCHANGED <<homeFullName, homeLoadingProfile, homeLoggingOut, homeProfilePc,
                   homeExpenses, homeLoading, homeLoads, homeDeletePc, homeAlert,
                   homeReturned, homeInFlight, homeLatest>>
    /\ UNCHANGED <<appRoute, bioSupport, checkSessionPc, attempt, bioBlocked, lastFailure, loginVars>>
    /\ UNCHANGED <<envVars, renderVars, summaryVars, formVars>>

\* signOut() of supabaseClient settles: it throws the error the backend
\* reports, and only without one navigation is reset to Login
HomeListSignOut ==
    /\ appRoute = "Home" /\ homeLogoutPc = "signOut"
    /\ \E outcome \in {"ok", "error", "throws"} :
        IF outcome = "ok"
        THEN /\ session' = FALSE
             /\ HomeResetToLogin
             /\ UNCHANGED lastFailure
        ELSE /\ homeAlert' = "No se pudo cerrar sesion."
             /\ homeLogoutPc' = "idle"
             /\ lastFailure' = [action |-> "signOut", messages |-> 1]
             /\ UNCHANGED <<session, appRoute, loginVars, homeFullName,
                            homeLoadingProfile, homeLoggingOut, homeProfilePc,
                            homeExpenses, homeLoading, homeLoads, homeDeletePc,
                            homeReturned, homeInFlight, homeLatest>>
    /\ UNCHANGED <<bioSupport, checkSessionPc, attempt, bioBlocked>>
    /\ UNCHANGED <<renderVars, tz, platform, now, table, summaryVars, formVars>>

NextApp ==
    \/ AppRestart
    \/ CheckSession
    \/ SessionEnds
    \/ LoginChange
    \/ LoginSubmit
    \/ LoginSignIn
    \/ LoginUpsert
    \/ LoginCheckSupport
    \/ LoginPrompt
    \/ LoginErrorTimeout
    \/ HomeProfileGetSession
    \/ HomeProfileSelect
    \/ HomeLogout
    \/ HomeSignOut

\* the variant of HomeScreen that lists the expenses
NextHome ==
    \/ HomeFocus
    \/ HomeSelectAnswered
    \/ HomeLoadExpenses
    \/ HomeDeleteConfirm
    \/ HomeDeleteExpense
    \/ HomeListLogout
    \/ HomeListSignOut

NextSummary ==
    \/ SummaryMount
    \/ SummaryGetSession
    \/ SummarySelect
    \/ ApplyFilters
    \/ ClearFilters
    \/ SetSearchName
    \/ SetMinAmount
    \/ SetMaxAmount
    \/ OpenStartPicker
    \/ OpenEndPicker
    \/ OnChangeStartDate
    \/ OnChangeEndDate
    \/ SummaryGoBack

(***************************************************************************)
(* Specifications                                                          *)
(***************************************************************************)
\* the app below a pushed screen: Home, with nothing in flight
(***************************************************************************)
(* formatMoney                                                             *)
(***************************************************************************)
MaxMoneyDigits == 9

RECURSIVE Pow10(_)
Pow10(k) == IF k = 0 THEN 1 ELSE 10 * Pow10(k - 1)

RECURSIVE Ramp(_)
\* the number written 1, 12, 123, ... with k digits
Ramp(k) == IF k = 0 THEN 0 ELSE Ramp(k - 1) * 10 + (k % 10)

MoneyTails(d) ==
    {0, Pow10(d - 1) - 1, Ramp(d - 1),
     Pow10(d - 1) \div 2, Pow10(d - 1) \div 4, Pow10(d - 1) \div 8}

\* the amounts formatMoney is given, in cents: of each length up to
\* MaxMoneyDigits digits, and 1234.5
MoneyAmounts ==
    {0, 123450} \cup
    UNION {{Pow10(d - 1) + t : t \in MoneyTails(d)} : d \in 1..MaxMoneyDigits}

\* value.toFixed(2) of an amount in cents
ToFixed2(cents) ==
    LET abs == IF cents < 0 THEN -cents ELSE cents
        fp == abs % 100
    IN  (IF cents < 0 THEN <<"-">> ELSE <<>>)
            \o NatToText(abs \div 100)
            \o <<".", Digits[(fp \div 10) + 1], Digits[(fp % 10) + 1]>>

\* a character of the class \w
IsWordChar(c) == IsDigit(c) \/ c \in AsciiLetters \/ c = "_"

\* \B at the position after the first p characters of s
NonWordBoundary(s, p) ==
    (p >= 1 /\ IsWordChar(s[p])) <=> (p < Len(s) /\ IsWordChar(s[p + 1]))

\* the lookahead with its negative lookahead left out
GroupsAheadUnbounded(s, p) ==
    \E k \in 1..(Len(s) \div 3) :
        /\ p + 3 * k <= Len(s)
        /\ \A j \in 1..(3 * k) : IsDigit(s[p + j])

\* (?=(\d{3})+(?!\d)) at the position after the first p characters of s
GroupsAhead(s, p) ==
    \E k \in 1..(Len(s) \div 3) :
        /\ p + 3 * k <= Len(s)
        /\ \A j \in 1..(3 * k) : IsDigit(s[p + j])
        /\ (p + 3 * k = Len(s) \/ ~IsDigit(s[p + 3 * k + 1]))

RECURSIVE ReplaceGroups(_, _)
\* s.replace(/\B(?=(\d{3})+(?!\d))/g, ',') from character i on: a comma at
\* every position the expression matches
ReplaceGroups(s, i) ==
    LET comma(p) == IF NonWordBoundary(s, p) /\ GroupsAhead(s, p) THEN <<",">> ELSE <<>>
    IN  IF i > Len(s) THEN comma(Len(s))
        ELSE comma(i - 1) \o <<s[i]>> \o ReplaceGroups(s, i + 1)

formatMoney(value) == <<"$">> \o ReplaceGroups(ToFixed2(value), 1)

\* a text of the screen renders formatMoney(value)
RenderMoney ==
    /\ moneyText = <<>>
    /\ moneyText' = formatMoney(moneyValue)
    /\ UNCHANGED <<moneyValue, dateVars, envVars, summaryVars, formVars, appVars>>

NextMoney == RenderMoney

(***************************************************************************)
(* formatDate                                                              *)
(***************************************************************************)
\* the calendar days of the values formatDate is given
DateDays ==
    {<<2023, 12, 31>>, <<2024, 1, 1>>, <<2024, 2, 29>>, <<2024, 5, 1>>,
     <<2024, 5, 15>>, <<2024, 5, 31>>, <<2024, 10, 9>>, <<2024, 11, 30>>}

\* item.date as the backend stores it, and the Date a picker gave
DateValues(zone) ==
    {[kind |-> "string", text |-> IsoText(p[1], p[2], p[3]), instant |-> 0] :
        p \in DateDays}
    \cup
    {[kind |-> "Date", text |-> <<>>, instant |-> LocalInstant(p[1], p[2], p[3], h, zone)] :
        p \in DateDays, h \in PickHours}

\* n.toString().padStart(2, '0')
PadStart2(n) == IF n < 10 THEN <<"0">> \o NatToText(n) ELSE NatToText(n)

\* formatDate(value) on a device of time zone offset zone
formatDate(value, zone) ==
    LET d == IF value.kind = "string" THEN NewDateFromIso(value.text) ELSE value.instant
        day == PadStart2(GetDate(d, zone))
        month == PadStart2(GetMonth(d, zone) + 1)
        year == GetFullYear(d, zone)
    IN  day \o <<"/">> \o month \o <<"/">> \o NatToText(year)

\* a text of the screen renders formatDate(value)
RenderDate ==
    /\ dateText = <<>>
    /\ dateText' = formatDate(dateValue, tz)
    /\ UNCHANGED <<dateValue, moneyVars, envVars, summaryVars, formVars, appVars>>

NextDate == RenderDate

AppAtHome ==
    /\ appRoute = "Home"
    /\ checkSessionPc = "done"
    /\ bioSupport = FALSE
    /\ attempt = NoAttempt
    /\ bioBlocked = FALSE
    /\ lastFailure = NoFailure
    /\ LoginInitial
    /\ HomeInitial

FormsInit ==
    /\ form = "none"
    /\ pendingCall = NoCall
    /\ formAction = "none"
    /\ AddFormInitial
    /\ EditFormInitial
    /\ RegFormInitial
    /\ AppAtHome

\* the summary screen, each form closed
Init ==
    /\ MoneyIdle
    /\ tz \in TimeZones
    /\ platform \in Platforms
    /\ now \in NowTimes(tz)
    /\ session \in BOOLEAN
    /\ table \in (IF session THEN Tables ELSE {{}})
    /\ SummaryInit
    /\ FormsInit

Next == NextSummary

Spec == Init /\ [][Next]_vars

\* the forms, the summary screen closed
InitForms ==
    /\ MoneyIdle
    /\ tz \in TimeZones
    /\ platform \in Platforms
    /\ now \in NowTimes(tz)
    /\ session \in BOOLEAN
    /\ table = {}
    /\ SummaryInit
    /\ FormsInit

\* the app from its start: AuthLoading, Login, Home; no handler of these
\* screens reads the time zone or the platform
InitApp ==
    /\ MoneyIdle
    /\ tz = 0
    /\ platform = "android"
    /\ now \in NowTimes(tz)
    /\ session \in BOOLEAN
    /\ table \in Tables
    /\ SummaryInit
    /\ form = "none" /\ pendingCall = NoCall /\ formAction = "none"
    /\ AddFormInitial /\ EditFormInitial /\ RegFormInitial
    /\ appRoute = "AuthLoading"
    /\ checkSessionPc = "getSession"
    /\ bioSupport \in BOOLEAN
    /\ attempt = NoAttempt
    /\ bioBlocked = FALSE
    /\ lastFailure = NoFailure
    /\ LoginInitial
    /\ HomeInitial

SpecApp == InitApp /\ [][NextApp]_vars

\* the app under the assumption that the session query of AuthLoadingScreen
\* settles: checkSession is resumed whenever getSession is in flight
SpecAppFair == InitApp /\ [][NextApp]_vars /\ WF_vars(CheckSession)

\* the HomeScreen that lists the expenses, just mounted: useFocusEffect has
\* started the first loadExpenses
InitHome ==
    /\ MoneyIdle
    /\ tz = 0
    /\ platform = "android"
    /\ now \in NowTimes(tz)
    /\ session \in BOOLEAN
    /\ table \in Tables
    /\ SummaryInit
    /\ form = "none" /\ pendingCall = NoCall /\ formAction = "none"
    /\ AddFormInitial /\ EditFormInitial /\ RegFormInitial
    /\ appRoute = "Home"
    /\ checkSessionPc = "done"
    /\ bioSupport = FALSE
    /\ attempt = NoAttempt
    /\ bioBlocked = FALSE
    /\ lastFailure = NoFailure
    /\ LoginInitial
    /\ homeFullName = <<>>
    /\ homeLoadingProfile = TRUE
    /\ homeLoggingOut = FALSE
    /\ homeProfilePc = "idle"
    /\ homeLogoutPc = "idle"
    /\ homeExpenses = <<>>
    /\ homeLoading = TRUE
    /\ homeLoads = 1
    /\ homeDeletePc = 0
    /\ homeAlert = ""
    /\ homeReturned = <<>>
    /\ homeInFlight = <<NewLoad>>
    /\ homeLatest = <<>>

SpecHome == InitHome /\ [][NextHome]_vars

\* one specification per form screen: a single screen is on top of the
\* navigation stack at a time
SpecAdd == InitForms /\ [][NextAdd]_vars

SpecEdit == InitForms /\ [][NextEdit]_vars

\* the edit screen with both buttons, on one device with the edited row
\* stored
InitEditButtons ==
    /\ MoneyIdle
    /\ tz = 0
    /\ platform = "android"
    /\ now \in NowTimes(tz)
    /\ session = TRUE
    /\ table = {EditedExpense}
    /\ SummaryInit
    /\ FormsInit

SpecEditButtons == InitEditButtons /\ [][NextEditButtons]_vars

\* the two expense forms, for what is said of both paths
NextExpenseForms == NextAdd \/ NextEdit

SpecExpenseForms == InitForms /\ [][NextExpenseForms]_vars

\* Register is a screen of the signed-out stack: it is reached from Login
InitRegister ==
    /\ InitForms
    /\ session = FALSE

SpecRegister == InitRegister /\ [][NextRegister]_vars

\* formatMoney alone, on each amount of MoneyAmounts
InitMoney ==
    /\ tz \in TimeZones
    /\ platform \in Platforms
    /\ now \in NowTimes(tz)
    /\ session = TRUE
    /\ table = {}
    /\ SummaryInit
    /\ FormsInit
    /\ moneyValue \in MoneyAmounts
    /\ moneyText = <<>>
    /\ DateIdle

SpecMoney == InitMoney /\ [][NextMoney]_vars

\* formatDate alone, on each value of DateValues
InitDate ==
    /\ tz \in TimeZones
    /\ platform \in Platforms
    /\ now \in NowTimes(tz)
    /\ session = TRUE
    /\ table = {}
    /\ SummaryInit
    /\ FormsInit
    /\ moneyValue = 0
    /\ moneyText = <<>>
    /\ dateValue \in DateValues(tz)
    /\ dateText = <<>>

SpecDate == InitDate /\ [][NextDate]_vars

(***************************************************************************)
(* Reference notions the properties are stated with                        *)
(***************************************************************************)
InList(e, list) == \E i \in 1..Len(list) : list[i] = e

\* the two characters are the same letter, whatever their case
SameIgnoringCase(a, b) ==
    \/ a = b
    \/ \E i \in 1..Len(UpperLetters) :
          {a, b} = {UpperLetters[i], LowerLetters[i]}

\* text contains pattern, letter case ignored
ContainsIgnoringCase(text, pattern) ==
    \E i \in 0..(Len(text) - Len(pattern)) :
        \A j \in 1..Len(pattern) : SameIgnoringCase(text[i + j], pattern[j])

NoDigit(text) == \A i \in 1..Len(text) : ~IsDigit(text[i])
AllDigits(text) == text # <<>> /\ \A i \in 1..Len(text) : IsDigit(text[i])

\* the calendar day written in an expense's date text, as a day number
ExpenseDay(exp) ==
    DaysFromCivil(NatOf(SubSeq(exp.date, 1, 4)), NatOf(SubSeq(exp.date, 6, 7)),
                  NatOf(SubSeq(exp.date, 9, 10)))
\* the calendar month and year written in an expense's date text
ExpenseMonth(exp) == NatOf(SubSeq(exp.date, 6, 7))
ExpenseYear(exp) == NatOf(SubSeq(exp.date, 1, 4))

\* the local calendar day on which an instant falls, as a day number
LocalDay(t) == (t + tz) \div HoursPerDay

NameAbsent == Trim(searchName) = <<>>
AmountsAbsent == NoDigit(minAmount) /\ NoDigit(maxAmount)
DatesAbsent == startDate = Undefined /\ endDate = Undefined

Applied == mounted /\ lastAction = "applyFilters"

\* exp satisfies every criterion, the date bounds taken at day granularity
SatisfiesCriteria(exp) ==
    /\ NameAbsent \/ ContainsIgnoringCase(exp.name, Trim(searchName))
    /\ IsNaN(ParseFloat(minAmount)) \/ exp.amount >= ParseFloat(minAmount)[1]
    /\ IsNaN(ParseFloat(maxAmount)) \/ exp.amount <= ParseFloat(maxAmount)[1]
    /\ startDate = Undefined \/ ExpenseDay(exp) >= LocalDay(startDate[1])
    /\ endDate = Undefined \/ ExpenseDay(exp) <= LocalDay(endDate[1])

(***************************************************************************)
(* Properties                                                              *)
(***************************************************************************)

\* C1: after applyFilters with at least one criterion active, the visible
\* list is exactly the loaded expenses that satisfy every active criterion
\* (name, minAmount, maxAmount, startDate, endDate), and filteredTotal is the
\* sum of amount over that list.
C1_VisibleIsExactlyTheMatches ==
    (Applied /\ HasFilters(searchName, minAmount, maxAmount, startDate, endDate)) =>
        /\ visibleExpenses = SelectSeq(allExpenses, SatisfiesCriteria)
        /\ filteredTotal = SumAmounts(visibleExpenses)

\* C2: after a successful load, an expense is in monthExpenses if and only
\* if the month and year of its date are those of now in the local
\* calendar, and monthTotal is the sum of amount over that subset.
C2_MonthIsLocalCalendarMonth ==
    (mounted /\ sumPc = "done" /\ sumAlert = "") =>
        LET inMonth(exp) ==
                /\ ExpenseMonth(exp) = LocalCivil(now, tz).m
                /\ ExpenseYear(exp) = LocalCivil(now, tz).y
        IN  /\ monthExpenses = SelectSeq(allExpenses, inMonth)
            /\ monthTotal = SumAmounts(SelectSeq(allExpenses, inMonth))

\* C3: with only date criteria set, an expense dated on the calendar day of
\* startDate, or on the calendar day of endDate, and within the other date
\* bound, is retained by applyFilters.
C3_DateRangeInclusive ==
    (Applied /\ NameAbsent /\ AmountsAbsent) =>
        \A i \in 1..Len(allExpenses) :
            LET exp == allExpenses[i]
                onStart == /\ startDate # Undefined
                           /\ ExpenseDay(exp) = LocalDay(startDate[1])
                           /\ endDate = Undefined
                               \/ ExpenseDay(exp) <= LocalDay(endDate[1])
                onEnd == /\ endDate # Undefined
                         /\ ExpenseDay(exp) = LocalDay(endDate[1])
                         /\ startDate = Undefined
                             \/ ExpenseDay(exp) >= LocalDay(startDate[1])
            IN  (onStart \/ onEnd) => InList(exp, visibleExpenses)

\* C4: a minAmount or maxAmount text that holds no number behaves as absent:
\* applyFilters shows the list and the total it shows with that text empty.
C4_UnparsableBoundIsAbsent ==
    Applied =>
        LET min == IF NoDigit(minAmount) THEN <<>> ELSE minAmount
            max == IF NoDigit(maxAmount) THEN <<>> ELSE maxAmount
            list == FilteredList(searchName, min, max, startDate, endDate)
        IN  /\ visibleExpenses = list
            /\ filteredTotal = SumAmounts(list)

\* C5: with no filter active (texts empty after trimming, no dates),
\* applyFilters and clearFilters show the current-month expenses and
\* filteredTotal is monthTotal.
C5_DefaultScopeIsCurrentMonth ==
    LET noFilter == /\ Trim(searchName) = <<>>
                    /\ Trim(minAmount) = <<>>
                    /\ Trim(maxAmount) = <<>>
                    /\ DatesAbsent
    IN  (mounted /\ (lastAction = "clearFilters" \/ (Applied /\ noFilter))) =>
            /\ noFilter
            /\ visibleExpenses = monthExpenses
            /\ filteredTotal = monthTotal

C5_Witness ==
    /\ Applied
    /\ searchName = <<>> /\ minAmount = <<" ">> /\ maxAmount = <<>> /\ DatesAbsent
    /\ visibleExpenses = monthExpenses
    /\ monthExpenses # <<>>
    /\ monthExpenses # allExpenses
    /\ filteredTotal > 0

\* C6: with every criterion absent the filter is the identity on the list it
\* is given (allExpenses or monthExpenses): same elements, same order, and
\* the total is the sum of the list; the empty list gives the empty list
\* and 0.
C6_NoCriteriaIsIdentity ==
    (Applied /\ NameAbsent /\ AmountsAbsent /\ DatesAbsent) =>
        LET given == IF Trim(minAmount) # <<>> \/ Trim(maxAmount) # <<>>
                     THEN allExpenses ELSE monthExpenses
        IN  /\ visibleExpenses = given
            /\ filteredTotal = SumAmounts(given)
            /\ given = <<>> => (visibleExpenses = <<>> /\ filteredTotal = 0)

C6_Witness ==
    /\ Applied /\ NameAbsent /\ DatesAbsent
    /\ minAmount = <<>> /\ maxAmount = <<"a", "b", "c">>
    /\ visibleExpenses = allExpenses
    /\ Len(allExpenses) >= 2
    /\ allExpenses # monthExpenses

\* C7: with minAmount = maxAmount = m and no other criterion, applyFilters
\* retains exactly the loaded expenses whose amount is m.
C7_EqualBoundsSelectAmount ==
    (Applied /\ NameAbsent /\ DatesAbsent /\ AllDigits(minAmount)
             /\ maxAmount = minAmount) =>
        LET m == NatOf(minAmount) * 100
            isM(exp) == exp.amount = m
        IN  visibleExpenses = SelectSeq(allExpenses, isM)

C7_Witness ==
    /\ Applied /\ NameAbsent /\ DatesAbsent
    /\ minAmount = <<"1", "5">> /\ maxAmount = <<"1", "5">>
    /\ Len(visibleExpenses) = 1
    /\ \E i \in 1..Len(allExpenses) : allExpenses[i].amount < 1500
    /\ \E i \in 1..Len(allExpenses) : allExpenses[i].amount > 1500

\* C8 as stated: with a name pattern p set and no other criterion, an
\* expense is retained if and only if its name contains p, case ignored.
C8_NameContainsPattern ==
    (Applied /\ searchName # <<>> /\ AmountsAbsent /\ DatesAbsent) =>
        \A i \in 1..Len(allExpenses) :
            InList(allExpenses[i], visibleExpenses)
                <=> ContainsIgnoringCase(allExpenses[i].name, searchName)

\* C8 amended: with a name pattern p that is not blank and no other
\* criterion, an expense is retained if and only if its name contains p
\* with its leading and trailing white space removed, case ignored.
C8_NameContainsTrimmedPattern ==
    (Applied /\ Trim(searchName) # <<>> /\ AmountsAbsent /\ DatesAbsent) =>
        \A i \in 1..Len(allExpenses) :
            InList(allExpenses[i], visibleExpenses)
                <=> ContainsIgnoringCase(allExpenses[i].name, Trim(searchName))

C8_Witness ==
    /\ Applied /\ AmountsAbsent /\ DatesAbsent
    /\ searchName = <<"c", "a", "f", " ">>
    /\ \E i \in 1..Len(visibleExpenses) : visibleExpenses[i].name[1] = "C"
    /\ Len(visibleExpenses) < Len(allExpenses)

\* the rules of the expense forms: a name of at least 3 characters after
\* trimming, an amount text that parses (with "." or ",") to a number above
\* 0, a YYYY-MM-DD text that names a day not later than today
RuleExpenseName(name) == Len(Trim(name)) >= 3

RuleExpenseAmount(text) ==
    LET num == ToNumber(ReplaceComma(text))
    IN  Trim(text) # <<>> /\ ~IsNaN(num) /\ num[1] > 0

RuleEditDate(text) ==
    /\ DateRegex(text)
    /\ ~IsNaN(NewDateLocalMidnight(text, tz))
    /\ NewDateLocalMidnight(text, tz)[1] <= NormalizeDate(now, tz)

\* C9: on the edit form no update request is in flight for values that
\* violate a rule of the form, and a rejected save has set the message of
\* every rule its values violate.
C9_SubmitOnlyWhenEveryRulePasses ==
    /\ pendingCall.op = "update" =>
          /\ RuleExpenseName(pendingCall.name)
          /\ RuleExpenseAmount(pendingCall.amount)
          /\ RuleEditDate(pendingCall.date)
    /\ (form = "edit" /\ formAction = "rejected") =>
          /\ ~RuleExpenseName(editName) => nameError # ""
          /\ ~RuleExpenseAmount(editAmount) => amountError # ""
          /\ ~RuleEditDate(editDate) => dateError # ""

\* C10: an insert or update request is in flight only for a name that,
\* after trimming, has at least 3 characters.
C10_AcceptedNameHasThreeCharacters ==
    pendingCall.op \in {"insert", "update"} => Len(Trim(pendingCall.name)) >= 3

\* C11: an insert or update request is in flight only for an amount text
\* that parses, with "." or ",", to a number above 0, and a save the edit
\* form rejects carries the amount message exactly when its amount text
\* does not parse to such a number.
C11_AmountAcceptedIffPositiveNumber ==
    /\ pendingCall.op \in {"insert", "update"} => RuleExpenseAmount(pendingCall.amount)
    /\ (form = "edit" /\ formAction = "rejected") =>
          (amountError # "" <=> ~RuleExpenseAmount(editAmount))
    /\ (form = "add" /\ formAction = "rejected") =>
          (addErrors.amount # "" <=> ~RuleExpenseAmount(addValues.amount))

\* the local calendar day a well-formed date text of the edit form names,
\* <<>> when it names none
EditTextDay(text) ==
    IF DateRegex(text) /\ ~IsNaN(NewDateLocalMidnight(text, tz))
    THEN <<LocalDay(NewDateLocalMidnight(text, tz)[1])>>
    ELSE <<>>

\* the date checked on the add path is the one the submission took
AddDateStep ==
    /\ form = "add" /\ addPc = "getSession" /\ addPc' # "getSession"

\* C12: a submission whose date is a day after today is rejected with an
\* error and no insert or update is issued for it, a date of today is not
\* refused; on the edit form a text that is not YYYY-MM-DD gets the format
\* message, and the range message is only given to a text of that form.
C12_StateRule ==
    /\ pendingCall.op = "insert" => LocalDay(pendingCall.date) <= LocalDay(now)
    /\ pendingCall.op = "update" =>
          /\ DateRegex(pendingCall.date)
          /\ EditTextDay(pendingCall.date) # <<>> =>
                EditTextDay(pendingCall.date)[1] <= LocalDay(now)
    /\ (form = "edit" /\ formAction = "rejected") =>
          /\ ~DateRegex(editDate) <=>
                dateError = "La fecha debe tener el formato YYYY-MM-DD."
          /\ (EditTextDay(editDate) # <<>> /\ EditTextDay(editDate)[1] > LocalDay(now))
                <=> dateError = "La fecha no puede ser mayor a hoy."
          /\ (EditTextDay(editDate) # <<>> /\ EditTextDay(editDate)[1] <= LocalDay(now))
                => dateError = ""

C12_AddStep ==
    AddDateStep =>
        /\ LocalDay(addSubmitted.date) > LocalDay(now) =>
              /\ pendingCall'.op = "none"
              /\ addStatusType' = "error" /\ addStatusMsg' # ""
        /\ LocalDay(addSubmitted.date) <= LocalDay(now) =>
              addStatusMsg' # "La fecha del gasto no puede ser mayor que hoy."

C12_FutureDateRejected == [](C12_StateRule) /\ [][C12_AddStep]_vars

C12_Witness ==
    /\ form = "edit" /\ formAction = "rejected"
    /\ editDate = IsoText(2024, 5, 16)
    /\ nameError = "" /\ amountError = ""
    /\ dateError = "La fecha no puede ser mayor a hoy."
    /\ pendingCall.op = "none"

\* the screen on top of the navigation stack
Route ==
    IF mounted THEN "ExpensesSummary"
    ELSE IF form = "add" THEN "AddExpense"
    ELSE IF form = "edit" THEN "EditExpense"
    ELSE IF form = "register" THEN "Register"
    ELSE appRoute

\* C13: after a biometric prompt failed, and until a sign-in fully
\* succeeds, the Home screen is not on screen.
C13_BiometricFailureBlocksHome == bioBlocked => appRoute # "Home"

\* C14: when the load of the summary screen, the submit of the add screen
\* or the expense load of the Home screen has found no active session, the
\* screen on top is Login.
C14_NoSessionResetsToLogin ==
    /\ (mounted /\ ~session /\ sumAlert = "Debes iniciar sesion.") => Route = "Login"
    /\ (form = "add" /\ ~session
          /\ addStatusMsg = "Debes iniciar sesion para registrar un gasto.")
          => Route = "Login"
    /\ (~session /\ lastFailure.action = "loadExpenses") => Route = "Login"

\* C15: when handleLogin has ended with a failure, no session created by
\* that attempt is still active and no profile upsert of that attempt was
\* applied; and an attempt whose profile upsert returned an error is not
\* admitted.
C15_FailedLoginLeavesNothing ==
    /\ attempt.result = "failed" =>
          /\ ~(attempt.session /\ session)
          /\ attempt.upsert # "applied"
    /\ attempt.result = "admitted" => attempt.upsert # "error"

\* C16: a remote call that failed has shown exactly one message to the
\* user.
C16_FailureShowsOneMessage ==
    lastFailure.action # "none" => lastFailure.messages = 1

\* after the load of the summary screen has succeeded, its lists are the
\* rows of the backend and their current-month part
SummaryLoadReplacesSnapshot ==
    (mounted /\ sumPc = "done" /\ lastAction = "load" /\ sumAlert = "") =>
        /\ allExpenses \in OrderByDateDesc(table)
        /\ monthExpenses = CurrentMonthExpenses(allExpenses)
        /\ visibleExpenses = monthExpenses

\* a call of loadExpenses of the Home screen settles with rows
HomeLoadSucceeds ==
    /\ appRoute = "Home" /\ appRoute' = "Home"
    /\ homeLoads' = homeLoads - 1
    /\ homeReturned' # <<>>

\* C17: after a load has succeeded the list is exactly the rows that load
\* was given, and a load that is given the rows of the load before it leaves
\* the list, the name and the alert of the screen as they were.
C17_ListIsWhatWasReturned ==
    /\ (appRoute = "Home" /\ homeReturned # <<>>) => homeExpenses = homeReturned[1]
    /\ SummaryLoadReplacesSnapshot

C17_ReloadStep ==
    (HomeLoadSucceeds /\ homeReturned' = homeReturned) =>
        /\ homeExpenses' = homeExpenses
        /\ homeFullName' = homeFullName
        /\ homeAlert' = homeAlert
        /\ homeLoading' = FALSE

C17_LoadReplacesSnapshot == [](C17_ListIsWhatWasReturned) /\ [][C17_ReloadStep]_vars

C17_Witness ==
    /\ appRoute = "Home" /\ homeLoads = 0
    /\ homeReturned # <<>> /\ homeExpenses = homeReturned[1]
    /\ Len(homeExpenses) = 2
    /\ {homeExpenses[i].id : i \in 1..2} = {2, 3}

\* the password rule of the registration form: 8 characters or more, a letter
\* of A-Z a-z, a digit of 0-9, a character that is neither, and not a
\* denylisted password
RuleRegPassword(password) ==
    /\ Len(password) >= 8
    /\ \E i \in 1..Len(password) : password[i] \in AsciiLetters
    /\ \E i \in 1..Len(password) : IsDigit(password[i])
    /\ \E i \in 1..Len(password) :
          password[i] \notin AsciiLetters /\ ~IsDigit(password[i])
    /\ password \notin WeakPasswords

AccentedLatinLetters == AccentedLetters \cup {"ü", "Ü"}

\* the number of whitespace-separated tokens of a text
NameTokens(name) ==
    Cardinality({i \in 1..Len(name) :
                    name[i] # " " /\ (i = 1 \/ name[i - 1] = " ")})

\* the name rule of the registration form: letters and spaces only, no two
\* consecutive spaces, two tokens or more
RuleRegName(name) ==
    /\ \A i \in 1..Len(name) :
          name[i] \in AsciiLetters \cup AccentedLatinLetters \cup {" "}
    /\ ~\E i \in 1..(Len(name) - 1) : name[i] = " " /\ name[i + 1] = " "
    /\ NameTokens(name) >= 2

\* C19: signUp is requested only with a full name that passes the name
\* rule, and a refused submit shows a message under the name field exactly
\* when the name does not pass the name rule.
C19_NameAcceptedIffRule ==
    /\ pendingCall.op = "signUp" => RuleRegName(pendingCall.fullName)
    /\ (form = "register" /\ formAction = "rejected") =>
          (regErrors.fullName = "" <=> RuleRegName(regValues.fullName))

RECURSIVE GroupedInThrees(_)
\* the digits of a natural number, in groups of three from the right with a
\* comma between two groups
GroupedInThrees(n) ==
    IF n < 1000 THEN NatToText(n)
    ELSE GroupedInThrees(n \div 1000)
            \o <<",", Digits[((n \div 100) % 10) + 1], Digits[((n \div 10) % 10) + 1],
                  Digits[(n % 10) + 1]>>

\* "$", the grouped integer part, ".", two decimal digits
MoneyText(cents) ==
    <<"$">> \o GroupedInThrees(cents \div 100)
            \o <<".", Digits[((cents \div 10) % 10) + 1], Digits[(cents % 10) + 1]>>

\* C20: the text formatMoney returns for a non-negative amount is "$", the
\* integer part grouped in threes with ",", "." and exactly two decimal
\* digits with no separator among them; it is the same text whatever the
\* time zone and the platform.
C20_FormatMoneyGroupsThousands ==
    (moneyText # <<>> /\ moneyValue >= 0) =>
        /\ moneyText = MoneyText(moneyValue)
        /\ SubSeq(moneyText, Len(moneyText) - 2, Len(moneyText)) =
              <<".", Digits[((moneyValue \div 10) % 10) + 1], Digits[(moneyValue % 10) + 1]>>

C20_Witness ==
    /\ moneyValue = 123450
    /\ moneyText = <<"$", "1", ",", "2", "3", "4", ".", "5", "0">>

\* C21: formatDate returns two digits of day, "/", two digits of month, "/"
\* and the year; for a text YYYY-MM-DD the day, month and year printed are
\* those of the text, on every time zone offset.
C21_FormatDatePrintsTheStoredDay ==
    dateText # <<>> =>
        /\ Len(dateText) = 10
        /\ dateText[3] = "/" /\ dateText[6] = "/"
        /\ \A i \in {1, 2, 4, 5, 7, 8, 9, 10} : IsDigit(dateText[i])
        /\ dateValue.kind = "string" =>
              /\ SubSeq(dateText, 1, 2) = SubSeq(dateValue.text, 9, 10)
              /\ SubSeq(dateText, 4, 5) = SubSeq(dateValue.text, 6, 7)
              /\ SubSeq(dateText, 7, 10) = SubSeq(dateValue.text, 1, 4)

\* C22: when no call of loadExpenses is in flight any more and the call
\* that started last was given rows, the list shown is those rows.
C22_ListIsTheLatestStartedLoad ==
    (appRoute = "Home" /\ homeLoads = 0 /\ homeLatest # <<>>) =>
        homeExpenses = homeLatest[1]

\* C30: loading is true exactly when a call of loadExpenses is in flight.
C30_LoadingReflectsLoadsInFlight ==
    appRoute = "Home" => (homeLoading <=> homeLoads > 0)

\* C23: the handlers of the edit screen call navigation.goBack() at most
\* once, and while a goBack of a successful save is pending the screen has no
\* update or delete request in flight.
C23_OneGoBackAfterSave ==
    /\ editGoBacks <= 1
    /\ (form = "edit" /\ editGoBackTimer > 0) =>
          (pendingCall.op = "none" /\ editGoBackTimer = 1)

\* the number of days of month m of year y
DaysInMonth(y, m) ==
    IF m = 2 THEN (IF (y % 4 = 0 /\ y % 100 # 0) \/ y % 400 = 0 THEN 29 ELSE 28)
    ELSE IF m \in {4, 6, 9, 11} THEN 30 ELSE 31

\* a text YYYY-MM-DD that names a day of the calendar
IsCalendarDate(text) ==
    /\ DateRegex(text)
    /\ NatOf(SubSeq(text, 6, 7)) \in 1..12
    /\ NatOf(SubSeq(text, 9, 10)) \in
          1..DaysInMonth(NatOf(SubSeq(text, 1, 4)), NatOf(SubSeq(text, 6, 7)))

\* C25: an update request is in flight only for a date text that names a
\* day of the calendar not later than today, and a save with a date text
\* that names no such day is rejected with a message under the date field.
C25_OnlyRealDatesAreSaved ==
    /\ pendingCall.op = "update" =>
          /\ IsCalendarDate(pendingCall.date)
          /\ EditTextDay(pendingCall.date) # <<>>
          /\ EditTextDay(pendingCall.date)[1] <= LocalDay(now)
    /\ (form = "edit" /\ formAction = "rejected" /\ ~IsCalendarDate(editDate)) =>
          dateError # ""

\* a sign-out of a logout handler settles
LogoutSettles ==
    /\ appRoute = "Home" /\ homeLogoutPc = "signOut"
    /\ homeLogoutPc' = "idle"
    /\ appRoute' \in {"Home", "Login"}

\* C24: when the sign-out of a logout handler settles, navigation is reset
\* to Login only with the session ended, and the user who stays on the
\* screen is shown the error.
C24_LogoutStep ==
    LogoutSettles =>
        /\ appRoute' = "Login" => ~session'
        /\ appRoute' = "Home" => homeAlert' = "No se pudo cerrar sesion."

C24_LogoutLeavesNoSession == [][C24_LogoutStep]_vars

RECURSIVE TotalOfFirst(_, _)
\* the sum of amount over the first n expenses of a list
TotalOfFirst(list, n) ==
    IF n = 0 THEN 0 ELSE TotalOfFirst(list, n - 1) + list[n].amount

\* C26: on the summary screen filteredTotal is the sum of amount over
\* visibleExpenses, monthTotal is the sum of amount over monthExpenses, and
\* every visible expense is an expense of allExpenses.
C26_TotalsMatchLists ==
    /\ filteredTotal = TotalOfFirst(visibleExpenses, Len(visibleExpenses))
    /\ monthTotal = TotalOfFirst(monthExpenses, Len(monthExpenses))
    /\ \A i \in 1..Len(visibleExpenses) :
          \E j \in 1..Len(allExpenses) : allExpenses[j] = visibleExpenses[i]

C26_Witness ==
    /\ mounted /\ lastAction = "clearFilters"
    /\ Len(allExpenses) = 3 /\ Len(monthExpenses) = 2
    /\ visibleExpenses = monthExpenses
    /\ filteredTotal = 2500 /\ monthTotal = 2500

\* the YYYY-MM-DD text of the local calendar day of an instant
LocalIsoDate(t) ==
    LET c == CivilFromDays(LocalDay(t)) IN IsoText(c.y, c.m, c.d)

\* C27: the date text sent in the insert of the add screen is the
\* YYYY-MM-DD of the local calendar day that was selected and validated,
\* in every device time zone: never the day before or the day after.
C27_InsertSendsTheSelectedDay ==
    pendingCall.op = "insert" => pendingCall.sentDate = LocalIsoDate(pendingCall.date)

\* a submission of the add screen ends
AddSettles ==
    /\ form = "add" /\ addPc \in {"getSession", "insert"}
    /\ addPc' = "idle"

\* C28: a submission of the add screen that ends with an error (no
\* session, future date, invalid amount, insert error or exception) leaves
\* the entered name and amount and the selected date as they were; the
\* form is cleared only by a submission that ends with a successful insert.
C28_FailedStep ==
    AddSettles =>
        /\ formAction' = "failed" =>
              /\ addValues' = addValues
              /\ addDate' = addDate
        /\ addValues' # addValues => formAction' = "done"

C28_FailedSubmitKeepsInput == [][C28_FailedStep]_vars

\* checkSession of AuthLoadingScreen resumes after getSession
CheckSessionSettles ==
    /\ appRoute = "AuthLoading" /\ checkSessionPc = "getSession"
    /\ checkSessionPc' # "getSession"

C29_ResetStep ==
    CheckSessionSettles =>
        /\ appRoute' \in {"Home", "Login"}
        /\ appRoute' = "Home" => session

\* C29: once the session query has settled (with a session, without one or
\* with a failure) checkSession resets navigation, to Home only when a
\* session exists and to Login otherwise, and the app does not stay on
\* AuthLoading forever.
C29_AuthLoadingAlwaysLeaves ==
    /\ [][C29_ResetStep]_vars
    /\ (appRoute = "AuthLoading") ~> (appRoute # "AuthLoading")

====
